---- MODULE Spec2Model ----
(***************************************************************************)
(* Governed state machines (package gsm): the declaration Builder, the    *)
(* build-time verifier (WFC, step tables, CC) and the immutable Machine.  *)
(*                                                                         *)
(* A State is its packed id.  Closures (check, repair, guard, effect) are *)
(* tables over the padded address space 0 .. 2^B - 1, computed from the   *)
(* State accessors exactly as the Go closures compute them.  Repairs are  *)
(* written with the machine's own handles, so they return in-domain       *)
(* states.  Indices of variables and events are 0-based as in the source; *)
(* sequences are 1-based, hence the +1 on every access.                    *)
(***************************************************************************)
EXTENDS Integers, Sequences, FiniteSets, TLC

VARIABLES b, pc, machine, report, err, cur, hist, op, arg, ret, calls, bld

vars == <<b, pc, machine, report, err, cur, hist, op, arg, ret, calls, bld>>

\* Longest sequence of Apply calls followed from NewState().
MaxApplies == 4

\* Longest sequence of Apply calls followed on a machine with one event
\* (such a sequence does not branch).
MaxRepeats == 15

\* Number of goroutines that call one built machine concurrently.
NumGoroutines == 2

\* ------------------------------------------------------------------------
\* var.go: variable kinds and widths
\* ------------------------------------------------------------------------
BoolKind == 0
EnumKind == 1
IntKind == 2

RECURSIVE bitsLoop(_, _)
bitsLoop(n, acc) == IF n > 0 THEN bitsLoop(n \div 2, acc + 1) ELSE acc

\* Variant: the count is not decremented before the shifts.
bitsNeeded_noDecrement(n) == IF n <= 1 THEN 0 ELSE bitsLoop(n, 0)

bitsNeeded(n) == IF n <= 1 THEN 0 ELSE bitsLoop(n - 1, 0)

\* ------------------------------------------------------------------------
\* state.go: accessors over the packed id
\* ------------------------------------------------------------------------
getRaw(s, v) == (s \div (2 ^ v.offset)) % (2 ^ v.bits)

\* Variant: the clearing mask is not bounded by the field's width.
setRaw_clearsAbove(s, v, val) ==
    LET cleared == s % (2 ^ v.offset)
    IN  cleared + (val % (2 ^ v.bits)) * (2 ^ v.offset)

setRaw(s, v, val) ==
    LET cleared == s - getRaw(s, v) * (2 ^ v.offset)
    IN  cleared + (val % (2 ^ v.bits)) * (2 ^ v.offset)

enumIndex(v, val) ==
    IF \E i \in 1..Len(v.labels) : v.labels[i] = val
    THEN (CHOOSE i \in 1..Len(v.labels) :
            v.labels[i] = val /\ \A k \in 1..(i - 1) : v.labels[k] # val) - 1
    ELSE -1

\* An index outside the labels is printed after a question mark ("?3").
enumLabel(v, idx) ==
    IF idx >= 0 /\ idx < Len(v.labels)
    THEN v.labels[idx + 1]
    ELSE "?" \o ToString(idx)

Get(s, v) == enumLabel(v, getRaw(s, v))

GetBool(s, v) == getRaw(s, v) # 0

\* Variant: the minimum is not added back.
GetInt_noMin(s, v) == getRaw(s, v)

GetInt(s, v) == getRaw(s, v) + v.min

\* What a caller holds after Set panicked with "gsm: enum has no value": no
\* State is returned.
PanicNoValue == -3

\* enumIndex reports a value that is not a label of v as -1; Set panics then.
Set(s, v, val) ==
    IF enumIndex(v, val) = -1
    THEN PanicNoValue
    ELSE setRaw(s, v, enumIndex(v, val))

SetBool(s, v, val) == IF val THEN setRaw(s, v, 1) ELSE setRaw(s, v, 0)

\* Variant: the upper clamp is missing.
SetInt_noUpper(s, v, val) ==
    LET lo == IF val < v.min THEN v.min ELSE val
    IN  setRaw(s, v, lo - v.min)

SetInt(s, v, val) ==
    LET max == v.min + v.domain - 1
        lo  == IF val < v.min THEN v.min ELSE val
        hi  == IF lo > max THEN max ELSE lo
    IN  setRaw(s, v, hi - v.min)

\* ------------------------------------------------------------------------
\* builder.go: the declaration surface
\* ------------------------------------------------------------------------
NewBuilder(name) ==
    [name |-> name, vars |-> <<>>, invariants |-> <<>>, events |-> <<>>,
     totalBits |-> 0, independent |-> <<>>, allIndependent |-> TRUE]

Bool(bd, name) ==
    LET v == [name |-> name, kind |-> BoolKind, index |-> Len(bd.vars),
              offset |-> bd.totalBits, bits |-> 1, domain |-> 2,
              labels |-> <<>>, min |-> 0]
    IN  [bd EXCEPT !.totalBits = @ + 1, !.vars = Append(@, v)]

\* What a caller holds after Enum panicked with "gsm: enum needs at least 2
\* values": the call returns nothing and the builder has no new variable.
PanicEnumValues == -4

\* What a caller holds after Int panicked with "gsm: int has max < min".
PanicIntRange == -5

\* What a caller holds after Independent panicked in eventIndex with
\* "gsm: unknown event": nothing was appended to the declared pairs.
PanicUnknownEventName == -6

Enum(bd, name, values) ==
    IF Len(values) < 2
    THEN PanicEnumValues
    ELSE LET v == [name |-> name, kind |-> EnumKind, index |-> Len(bd.vars),
                   offset |-> bd.totalBits, bits |-> bitsNeeded(Len(values)),
                   domain |-> Len(values), labels |-> values, min |-> 0]
         IN  [bd EXCEPT !.totalBits = @ + bitsNeeded(Len(values)),
                        !.vars = Append(@, v)]

\* Variant: one more value than the range holds is given room.
IntVar_extraValue(bd, name, min, max) ==
    IF max < min
    THEN PanicIntRange
    ELSE LET domain == max - min + 1
             v == [name |-> name, kind |-> IntKind, index |-> Len(bd.vars),
                   offset |-> bd.totalBits, bits |-> bitsNeeded(domain + 1),
                   domain |-> domain, labels |-> <<>>, min |-> min]
         IN  [bd EXCEPT !.totalBits = @ + bitsNeeded(domain + 1),
                        !.vars = Append(@, v)]

IntVar(bd, name, min, max) ==
    IF max < min
    THEN PanicIntRange
    ELSE LET domain == max - min + 1
             v == [name |-> name, kind |-> IntKind, index |-> Len(bd.vars),
                   offset |-> bd.totalBits, bits |-> bitsNeeded(domain),
                   domain |-> domain, labels |-> <<>>, min |-> min]
         IN  [bd EXCEPT !.totalBits = @ + bitsNeeded(domain),
                        !.vars = Append(@, v)]

\* The handle returned by the last Bool/Enum/IntVar call.
LastVar(bd) == bd.vars[Len(bd.vars)]

\* The padded address space of a layout.
Ids(bd) == 0..((2 ^ bd.totalBits) - 1)

\* InvariantBuilder: Invariant(name).Over(vs...).Check(c).Repair(r).Add()
Invariant(bd, name, over, check, repair) ==
    [bd EXCEPT !.invariants =
        Append(@, [name |-> name,
                   footprint |-> [k \in 1..Len(over) |-> over[k].index],
                   check |-> check, repair |-> repair])]

\* Variant of Event: Guard(g) does not record that a guard was given.
Event_guardDropped(bd, name, writes, hasGuard, guard, effect) ==
    [bd EXCEPT !.events =
        Append(@, [name |-> name,
                   writes |-> [k \in 1..Len(writes) |-> writes[k].index],
                   hasGuard |-> FALSE, guard |-> guard,
                   effect |-> effect])]

\* EventBuilder: Event(name).Writes(vs...).Guard(g).Apply(f).Add();
\* hasGuard = FALSE is the nil guard.
Event(bd, name, writes, hasGuard, guard, effect) ==
    [bd EXCEPT !.events =
        Append(@, [name |-> name,
                   writes |-> [k \in 1..Len(writes) |-> writes[k].index],
                   hasGuard |-> hasGuard, guard |-> guard,
                   effect |-> effect])]

\* The index of the first event of that name; a name that no event has
\* makes the call panic.
eventIndex(bd, name) ==
    IF \E i \in 1..Len(bd.events) : bd.events[i].name = name
    THEN (CHOOSE i \in 1..Len(bd.events) :
            bd.events[i].name = name
            /\ \A k \in 1..(i - 1) : bd.events[k].name # name) - 1
    ELSE PanicUnknownEventName

\* The two indices are computed before the append, so a panic of eventIndex
\* leaves the declared pairs as they were and returns nothing.
Independent(bd, e1name, e2name) ==
    IF \/ eventIndex(bd, e1name) = PanicUnknownEventName
       \/ eventIndex(bd, e2name) = PanicUnknownEventName
    THEN PanicUnknownEventName
    ELSE [bd EXCEPT !.independent =
            Append(@, <<eventIndex(bd, e1name), eventIndex(bd, e2name)>>)]

DeclaredIndependence(bd) == [bd EXCEPT !.allIndependent = FALSE]

\* ------------------------------------------------------------------------
\* verify.go: Build and its three phases
\* ------------------------------------------------------------------------
maxStateSpace == 1048576

MaxBits == 20

\* Variant: the domain test is off by one (raw >= domain - 1).
isValidEncoding_offByOne(bd, packed) ==
    \A k \in 1..Len(bd.vars) :
        LET v == bd.vars[k]
        IN  ~(((packed \div (2 ^ v.offset)) % (2 ^ v.bits)) >= v.domain - 1)

isValidEncoding(bd, packed) ==
    \A k \in 1..Len(bd.vars) :
        LET v == bd.vars[k]
        IN  ~(((packed \div (2 ^ v.offset)) % (2 ^ v.bits)) >= v.domain)

\* Variant: only the first invariant is consulted.
allInvariantsHold_firstOnly(bd, s) ==
    Len(bd.invariants) = 0 \/ bd.invariants[1].check[s]

allInvariantsHold(bd, s) ==
    \A k \in 1..Len(bd.invariants) : bd.invariants[k].check[s]

\* Variant: the scan keeps the last violated invariant instead of
\* returning at the first one.
applyFirstRepair_last(bd, s) ==
    IF \E k \in 1..Len(bd.invariants) : ~bd.invariants[k].check[s]
    THEN LET last == CHOOSE k \in 1..Len(bd.invariants) :
                        /\ ~bd.invariants[k].check[s]
                        /\ \A m \in (k + 1)..Len(bd.invariants) :
                                bd.invariants[m].check[s]
         IN  bd.invariants[last].repair[s]
    ELSE s

applyFirstRepair(bd, s) ==
    IF \E k \in 1..Len(bd.invariants) : ~bd.invariants[k].check[s]
    THEN LET first == CHOOSE k \in 1..Len(bd.invariants) :
                        /\ ~bd.invariants[k].check[s]
                        /\ \A m \in 1..(k - 1) : bd.invariants[m].check[s]
         IN  bd.invariants[first].repair[s]
    ELSE s

\* Variant: the guard is not consulted.
applyEvent_noGuard(ev, s) == ev.effect[s]

applyEvent(ev, s) ==
    IF ev.hasGuard /\ ~ev.guard[s] THEN s ELSE ev.effect[s]

RECURSIVE clampFrom(_, _, _)
clampFrom(bd, k, s) ==
    IF k > Len(bd.vars) THEN s
    ELSE LET v   == bd.vars[k]
             raw == getRaw(s, v)
             max == v.domain - 1
         IN  clampFrom(bd, k + 1, IF raw > max THEN setRaw(s, v, max) ELSE s)

clampState(bd, s) == clampFrom(bd, 1, s)

\* Variant: the loop body runs at most once (if instead of for).
repairLoop_oneStep(bd, stateCount, s, depth, seen) ==
    IF allInvariantsHold(bd, s)
    THEN [ok |-> TRUE, s |-> s, depth |-> depth]
    ELSE LET s2 == applyFirstRepair(bd, s)
             d2 == depth + 1
         IN  IF s2 \in seen \/ d2 > stateCount
             THEN [ok |-> FALSE, s |-> s2, depth |-> d2]
             ELSE [ok |-> TRUE, s |-> s2, depth |-> d2]

\* One pass of the inner loop of computeNormalForms for a start state:
\* ok = FALSE is the WFC failure return.
RECURSIVE repairLoop(_, _, _, _, _)
repairLoop(bd, stateCount, s, depth, seen) ==
    IF allInvariantsHold(bd, s)
    THEN [ok |-> TRUE, s |-> s, depth |-> depth]
    ELSE LET s2 == applyFirstRepair(bd, s)
             d2 == depth + 1
         IN  IF s2 \in seen \/ d2 > stateCount
             THEN [ok |-> FALSE, s |-> s2, depth |-> d2]
             ELSE repairLoop(bd, stateCount, s2, d2, seen \cup {s2})

SetMax(S) == IF S = {} THEN 0 ELSE CHOOSE x \in S : \A y \in S : y <= x

SetMin(S) == CHOOSE x \in S : \A y \in S : x <= y

\* Variant: the depth of every start state overwrites maxRepair.
computeNormalForms_lastDepth(bd, packedCount, stateCount, valid) ==
    LET runs == [i \in 0..(packedCount - 1) |->
                    IF ~valid[i] THEN [ok |-> TRUE, s |-> i, depth |-> 0]
                    ELSE repairLoop(bd, stateCount, i, 0, {i})]
        nf   == [i \in 0..(packedCount - 1) |-> runs[i].s]
        last == SetMax({i \in 0..(packedCount - 1) : valid[i]})
    IN  IF \E i \in 0..(packedCount - 1) : ~runs[i].ok
        THEN [err |-> "wfc", nf |-> <<>>, WFC |-> FALSE, MaxRepairLen |-> 0]
        ELSE IF \E i \in 0..(packedCount - 1) :
                    valid[i] /\ allInvariantsHold(bd, i) /\ nf[i] # i
             THEN [err |-> "moves_valid", nf |-> <<>>, WFC |-> TRUE,
                   MaxRepairLen |-> runs[last].depth]
             ELSE [err |-> "", nf |-> nf, WFC |-> TRUE,
                   MaxRepairLen |-> runs[last].depth]

computeNormalForms(bd, packedCount, stateCount, valid) ==
    LET runs == [i \in 0..(packedCount - 1) |->
                    IF ~valid[i] THEN [ok |-> TRUE, s |-> i, depth |-> 0]
                    ELSE repairLoop(bd, stateCount, i, 0, {i})]
        nf   == [i \in 0..(packedCount - 1) |-> runs[i].s]
    IN  IF \E i \in 0..(packedCount - 1) : ~runs[i].ok
        THEN [err |-> "wfc", nf |-> <<>>, WFC |-> FALSE, MaxRepairLen |-> 0]
        ELSE IF \E i \in 0..(packedCount - 1) :
                    valid[i] /\ allInvariantsHold(bd, i) /\ nf[i] # i
             THEN [err |-> "moves_valid", nf |-> <<>>, WFC |-> TRUE,
                   MaxRepairLen |->
                       SetMax({runs[i].depth : i \in 0..(packedCount - 1)})]
             ELSE [err |-> "", nf |-> nf, WFC |-> TRUE,
                   MaxRepairLen |->
                       SetMax({runs[i].depth : i \in 0..(packedCount - 1)})]

\* Variant: the step table stores the clamped post-state, not its normal form.
computeStepTables_noNF(bd, packedCount, valid, nf) ==
    [e \in 1..Len(bd.events) |->
        [i \in 0..(packedCount - 1) |->
            IF valid[i]
            THEN clampState(bd, applyEvent(bd.events[e], i))
            ELSE 0]]

computeStepTables(bd, packedCount, valid, nf) ==
    [e \in 1..Len(bd.events) |->
        [i \in 0..(packedCount - 1) |->
            IF valid[i]
            THEN nf[clampState(bd, applyEvent(bd.events[e], i))]
            ELSE 0]]

\* Variant: an invariant counts only when the event writes its whole
\* footprint.
eventFootprint_containedOnly(bd, ei) ==
    LET writes == {bd.events[ei + 1].writes[k] :
                        k \in 1..Len(bd.events[ei + 1].writes)}
        fpOf(inv) == {inv.footprint[k] : k \in 1..Len(inv.footprint)}
    IN  UNION {fpOf(bd.invariants[k]) :
                 k \in {m \in 1..Len(bd.invariants) :
                          fpOf(bd.invariants[m]) \subseteq writes}}

eventFootprint(bd, ei) ==
    LET writes == {bd.events[ei + 1].writes[k] :
                        k \in 1..Len(bd.events[ei + 1].writes)}
        fpOf(inv) == {inv.footprint[k] : k \in 1..Len(inv.footprint)}
    IN  UNION {fpOf(bd.invariants[k]) :
                 k \in {m \in 1..Len(bd.invariants) :
                          fpOf(bd.invariants[m]) \cap writes # {}}}

eventsDisjoint(bd, ei, ej) ==
    eventFootprint(bd, ei) \cap eventFootprint(bd, ej) = {}

\* Variant: the whole n x n index matrix, diagonal and lower triangle
\* included.
allPairsFrom_fullMatrix(i, j, n) ==
    [k \in 1..(n * n) |-> <<(k - 1) \div n, (k - 1) % n>>]

RECURSIVE allPairsFrom(_, _, _)
allPairsFrom(i, j, n) ==
    IF i >= n THEN <<>>
    ELSE IF j >= n THEN allPairsFrom(i + 1, i + 2, n)
    ELSE <<<<i, j>>>> \o allPairsFrom(i, j + 1, n)

\* Variant: the declared-pairs mode is ignored.
pairsToCheck_allAlways(bd) == allPairsFrom(0, 1, Len(bd.events))

pairsToCheck(bd) ==
    IF bd.allIndependent
    THEN allPairsFrom(0, 1, Len(bd.events))
    ELSE [k \in 1..Len(bd.independent) |->
            LET p == bd.independent[k]
            IN  IF p[1] > p[2] THEN <<p[2], p[1]>> ELSE <<p[1], p[2]>>]

\* Variant: the state loop does not stop at the first mismatch.
firstMismatch_last(packedCount, valid, step, i, j) ==
    LET bad == {s \in 0..(packedCount - 1) :
                   valid[s] /\ step[j + 1][step[i + 1][s]]
                                  # step[i + 1][step[j + 1][s]]}
    IN  IF bad = {} THEN -1 ELSE SetMax(bad)

\* The state loop of verifyCC for one pair: the first id at which the two
\* orders differ, or -1 when the loop runs to its end.
firstMismatch(packedCount, valid, step, i, j) ==
    LET bad == {s \in 0..(packedCount - 1) :
                   valid[s] /\ step[j + 1][step[i + 1][s]]
                                  # step[i + 1][step[j + 1][s]]}
    IN  IF bad = {} THEN -1 ELSE SetMin(bad)

\* Variant: the report is created with an allocated, empty CCFailure.
NoCCFailure_allocated ==
    [isNil |-> FALSE, Event1 |-> "", Event2 |-> "", State |-> 0,
     Result1 |-> 0, Result2 |-> 0]

NoCCFailure ==
    [isNil |-> TRUE, Event1 |-> "", Event2 |-> "", State |-> 0,
     Result1 |-> 0, Result2 |-> 0]

RECURSIVE ccLoop(_, _, _, _, _, _, _, _)
ccLoop(bd, packedCount, valid, step, pairs, k, pairsDisjoint, pairsBrute) ==
    IF k > Len(pairs)
    THEN [err |-> "", CC |-> TRUE,
          PairsTotal |-> pairsDisjoint + pairsBrute,
          PairsDisjoint |-> pairsDisjoint, PairsBrute |-> pairsBrute,
          CCFailure |-> NoCCFailure]
    ELSE LET i == pairs[k][1]
             j == pairs[k][2]
         IN  IF eventsDisjoint(bd, i, j)
             THEN ccLoop(bd, packedCount, valid, step, pairs, k + 1,
                         pairsDisjoint + 1, pairsBrute)
             ELSE LET s == firstMismatch(packedCount, valid, step, i, j)
                  IN  IF s # -1
                      THEN [err |-> "cc", CC |-> FALSE,
                            PairsTotal |-> pairsDisjoint + pairsBrute + 1,
                            PairsDisjoint |-> pairsDisjoint,
                            PairsBrute |-> pairsBrute + 1,
                            CCFailure |->
                              [isNil |-> FALSE,
                               Event1 |-> bd.events[i + 1].name,
                               Event2 |-> bd.events[j + 1].name,
                               State |-> s,
                               Result1 |-> step[j + 1][step[i + 1][s]],
                               Result2 |-> step[i + 1][step[j + 1][s]]]]
                      ELSE ccLoop(bd, packedCount, valid, step, pairs, k + 1,
                                  pairsDisjoint, pairsBrute + 1)

\* Variant: report.CC is set inside the pair loop, so it stays false when
\* there is no pair.
verifyCC_ccSetInLoop(bd, packedCount, valid, step) ==
    LET r == ccLoop(bd, packedCount, valid, step, pairsToCheck(bd), 1, 0, 0)
    IN  [r EXCEPT !.CC = @ /\ Len(pairsToCheck(bd)) > 0]

verifyCC(bd, packedCount, valid, step) ==
    ccLoop(bd, packedCount, valid, step, pairsToCheck(bd), 1, 0, 0)

\* Variant: the padded address space is counted, 2^w for every variable.
productFrom_packedCount(vs, k) ==
    IF k > Len(vs) THEN 1
    ELSE 2 ^ (vs[Len(vs)].offset + vs[Len(vs)].bits - vs[k].offset)

RECURSIVE productFrom(_, _)
productFrom(vs, k) ==
    IF k > Len(vs) THEN 1 ELSE vs[k].domain * productFrom(vs, k + 1)

NilMachine ==
    [isNil |-> TRUE, name |-> "", vars |-> <<>>, events |-> <<>>,
     step |-> <<>>, nf |-> <<>>]

NilReport ==
    [isNil |-> TRUE, Name |-> "", StateCount |-> 0, VarCount |-> 0,
     EventCount |-> 0, WFC |-> FALSE, MaxRepairLen |-> 0, CC |-> FALSE,
     PairsTotal |-> 0, PairsDisjoint |-> 0, PairsBrute |-> 0,
     CCFailure |-> NoCCFailure]

\* The name -> index map filled by the last loop of Build: a later event of
\* the same name overwrites the earlier index.
eventMap(bd) ==
    [n \in {bd.events[k].name : k \in 1..Len(bd.events)} |->
        SetMax({k \in 1..Len(bd.events) : bd.events[k].name = n}) - 1]

\* Variant: the width limit is tested against the state count.
Build_widthOfCount(bd) ==
    IF productFrom(bd.vars, 1) > MaxBits
    THEN [machine |-> NilMachine, report |-> NilReport, err |-> "too_large"]
    ELSE
    LET stateCount == productFrom(bd.vars, 1)
    IN
    IF stateCount > maxStateSpace
    THEN [machine |-> NilMachine, report |-> NilReport, err |-> "too_large"]
    ELSE
    LET packedCount == 2 ^ bd.totalBits
        report0 == [NilReport EXCEPT !.isNil = FALSE, !.Name = bd.name,
                       !.StateCount = stateCount, !.VarCount = Len(bd.vars),
                       !.EventCount = Len(bd.events)]
        valid == [i \in 0..(packedCount - 1) |-> isValidEncoding(bd, i)]
        r1 == computeNormalForms(bd, packedCount, stateCount, valid)
        report1 == [report0 EXCEPT !.WFC = r1.WFC,
                                   !.MaxRepairLen = r1.MaxRepairLen]
    IN
    IF r1.err # ""
    THEN [machine |-> NilMachine, report |-> report1, err |-> r1.err]
    ELSE
    LET step == computeStepTables(bd, packedCount, valid, r1.nf)
        r3 == verifyCC(bd, packedCount, valid, step)
        report3 == [report1 EXCEPT !.CC = r3.CC,
                                   !.PairsTotal = r3.PairsTotal,
                                   !.PairsDisjoint = r3.PairsDisjoint,
                                   !.PairsBrute = r3.PairsBrute,
                                   !.CCFailure = r3.CCFailure]
    IN
    IF r3.err # ""
    THEN [machine |-> NilMachine, report |-> report3, err |-> r3.err]
    ELSE [machine |-> [isNil |-> FALSE, name |-> bd.name, vars |-> bd.vars,
                       events |-> eventMap(bd), step |-> step, nf |-> r1.nf],
          report |-> report3, err |-> ""]

Build(bd) ==
    IF bd.totalBits > MaxBits
    THEN [machine |-> NilMachine, report |-> NilReport, err |-> "too_large"]
    ELSE
    LET stateCount == productFrom(bd.vars, 1)
    IN
    IF stateCount > maxStateSpace
    THEN [machine |-> NilMachine, report |-> NilReport, err |-> "too_large"]
    ELSE
    LET packedCount == 2 ^ bd.totalBits
        report0 == [NilReport EXCEPT !.isNil = FALSE, !.Name = bd.name,
                       !.StateCount = stateCount, !.VarCount = Len(bd.vars),
                       !.EventCount = Len(bd.events)]
        valid == [i \in 0..(packedCount - 1) |-> isValidEncoding(bd, i)]
        r1 == computeNormalForms(bd, packedCount, stateCount, valid)
        report1 == [report0 EXCEPT !.WFC = r1.WFC,
                                   !.MaxRepairLen = r1.MaxRepairLen]
    IN
    IF r1.err # ""
    THEN [machine |-> NilMachine, report |-> report1, err |-> r1.err]
    ELSE
    LET step == computeStepTables(bd, packedCount, valid, r1.nf)
        r3 == verifyCC(bd, packedCount, valid, step)
        report3 == [report1 EXCEPT !.CC = r3.CC,
                                   !.PairsTotal = r3.PairsTotal,
                                   !.PairsDisjoint = r3.PairsDisjoint,
                                   !.PairsBrute = r3.PairsBrute,
                                   !.CCFailure = r3.CCFailure]
    IN
    IF r3.err # ""
    THEN [machine |-> NilMachine, report |-> report3, err |-> r3.err]
    ELSE [machine |-> [isNil |-> FALSE, name |-> bd.name, vars |-> bd.vars,
                       events |-> eventMap(bd), step |-> step, nf |-> r1.nf],
          report |-> report3, err |-> ""]

\* ------------------------------------------------------------------------
\* machine.go: the runtime API
\* ------------------------------------------------------------------------
NewState(m) == 0

\* What a caller holds after Apply panicked with "gsm: unknown event": no
\* State.
PanicUnknownEvent == -1

\* Variant: an unknown name is ignored and the state handed back.
Apply_unknownIgnored(m, s, event) ==
    IF event \notin DOMAIN m.events THEN s
    ELSE m.step[m.events[event] + 1][s]

Apply(m, s, event) ==
    IF event \notin DOMAIN m.events THEN PanicUnknownEvent
    ELSE m.step[m.events[event] + 1][s]

\* Variant: Normalize indexes the step table of event 0 (as Apply would).
Normalize_viaStep(m, s) == IF Len(m.step) > 0 THEN m.step[1][s] ELSE m.nf[s]

Normalize(m, s) == m.nf[s]

IsValid(m, s) == m.nf[s] = s

\* What a caller holds after Events panicked with an index out of range.
PanicIndexOutOfRange == -2

\* Events: a slice with one slot per key of the event map, each name stored
\* at its index; a slot no name is stored at keeps the empty string.
Events(m) ==
    [i \in 1..Cardinality(DOMAIN m.events) |->
        IF \E name \in DOMAIN m.events : m.events[name] = i - 1
        THEN CHOOSE name \in DOMAIN m.events : m.events[name] = i - 1
        ELSE ""]

\* names[idx] = name panics when an index is not below the number of keys.
EventsPanics(m) ==
    \E name \in DOMAIN m.events : m.events[name] >= Cardinality(DOMAIN m.events)

\* A table indexed by id as a JSON array (position id + 1).
jsonArray(tbl) == [k \in 1..Cardinality(DOMAIN tbl) |-> tbl[k - 1]]

\* The document Export marshals (exported_at, the time of the call, is
\* left out).  Export calls Events first and panics where Events does.
Export(m) ==
    [name    |-> m.name,
     version |-> 1,
     vars    |-> [i \in 1..Len(m.vars) |->
                    LET v == m.vars[i]
                    IN  [name   |-> v.name,
                         kind   |-> IF v.kind = BoolKind THEN "bool"
                                    ELSE IF v.kind = EnumKind THEN "enum"
                                    ELSE "int",
                         labels |-> IF v.kind = EnumKind THEN v.labels ELSE <<>>,
                         min    |-> IF v.kind = IntKind THEN v.min ELSE 0,
                         max    |-> IF v.kind = IntKind
                                    THEN v.min + v.domain - 1 ELSE 0]],
     events  |-> Events(m),
     nf      |-> jsonArray(m.nf),
     step    |-> [e \in 1..Len(m.step) |-> jsonArray(m.step[e])],
     verification |-> [wfc |-> TRUE, cc |-> TRUE,
                       state_count |-> Cardinality(DOMAIN m.nf),
                       event_count |-> Len(Events(m))]]

\* The runtime of Export's comment, working from the document alone:
\* events = {n: i for i, n in enumerate(d['events'])} (a later position
\* overwrites an earlier one), apply = step[events[event]][state].
LoadedEvents(d) ==
    [n \in {d.events[i] : i \in 1..Len(d.events)} |->
        SetMax({i \in 1..Len(d.events) : d.events[i] = n}) - 1]

LoadedApply(d, s, event) == d.step[LoadedEvents(d)[event] + 1][s + 1]

LoadedNormalize(d, s) == d.nf[s + 1]

LoadedIsValid(d, s) == d.nf[s + 1] = s

\* ------------------------------------------------------------------------
\* Declarations: the scenario machines of the tests and examples
\* ------------------------------------------------------------------------
\* A closure as a table over the padded address space of a layout.
Always(bd) == [s \in Ids(bd) |-> TRUE]

\* gsm_test.go buildOrderMachine
OrderLayout ==
    IntVar(Bool(Enum(NewBuilder("order_fulfillment"), "status",
                     <<"pending", "paid", "shipped", "cancelled">>),
                "paid"),
           "inventory", 0, 5)

OrderMachine ==
    LET L         == OrderLayout
        status    == L.vars[1]
        paid      == L.vars[2]
        inventory == L.vars[3]
        b1 == Invariant(L, "no_ship_unpaid", <<status, paid>>,
                [s \in Ids(L) |-> Get(s, status) # "shipped" \/ GetBool(s, paid)],
                [s \in Ids(L) |-> Set(s, status, "pending")])
        b2 == Invariant(b1, "stock_non_negative", <<inventory>>,
                [s \in Ids(L) |-> GetInt(s, inventory) >= 0],
                [s \in Ids(L) |-> SetInt(s, inventory, 0)])
        b3 == Event(b2, "place_order", <<status, paid>>, FALSE, Always(L),
                [s \in Ids(L) |-> SetBool(Set(s, status, "pending"), paid, FALSE)])
        b4 == Event(b3, "process_payment", <<status, paid>>, TRUE,
                [s \in Ids(L) |-> Get(s, status) = "pending"],
                [s \in Ids(L) |-> SetBool(Set(s, status, "paid"), paid, TRUE)])
        b5 == Event(b4, "ship_item", <<status, inventory>>, TRUE,
                [s \in Ids(L) |-> Get(s, status) = "paid" /\ GetInt(s, inventory) > 0],
                [s \in Ids(L) |-> SetInt(Set(s, status, "shipped"), inventory,
                                         GetInt(s, inventory) - 1)])
        b6 == Event(b5, "cancel_order", <<status>>, TRUE,
                [s \in Ids(L) |-> Get(s, status) # "shipped"],
                [s \in Ids(L) |-> Set(s, status, "cancelled")])
        b7 == Event(b6, "restock", <<inventory>>, FALSE, Always(L),
                [s \in Ids(L) |-> SetInt(s, inventory, GetInt(s, inventory) + 1)])
    IN  Independent(Independent(Independent(DeclaredIndependence(b7),
            "place_order", "restock"),
            "process_payment", "restock"),
            "cancel_order", "restock")

\* gsm_test.go TestCCFailureDetected
CCFailureMachine ==
    LET L  == IntVar(NewBuilder("bad_machine"), "x", 0, 4)
        x  == L.vars[1]
        b1 == Invariant(L, "x_bounded", <<x>>,
                [s \in Ids(L) |-> GetInt(s, x) <= 3],
                [s \in Ids(L) |-> SetInt(s, x, 0)])
        b2 == Event(b1, "inc_one", <<x>>, FALSE, Always(L),
                [s \in Ids(L) |-> SetInt(s, x, GetInt(s, x) + 1)])
    IN  Event(b2, "inc_two", <<x>>, FALSE, Always(L),
                [s \in Ids(L) |-> SetInt(s, x, GetInt(s, x) + 2)])

\* gsm_test.go TestWFCFailureDetected
WFCFailureMachine ==
    LET L  == IntVar(NewBuilder("cycling_machine"), "x", 0, 2)
        x  == L.vars[1]
        b1 == Invariant(L, "not_one", <<x>>,
                [s \in Ids(L) |-> GetInt(s, x) # 1],
                [s \in Ids(L) |-> SetInt(s, x, 2)])
        b2 == Invariant(b1, "not_two", <<x>>,
                [s \in Ids(L) |-> GetInt(s, x) # 2],
                [s \in Ids(L) |-> SetInt(s, x, 1)])
        b3 == Event(b2, "set_one", <<x>>, FALSE, Always(L),
                [s \in Ids(L) |-> SetInt(s, x, 1)])
    IN  DeclaredIndependence(b3)

\* gsm_test.go TestCompensationFires
CompensationMachine ==
    LET L      == Bool(Enum(NewBuilder("test_compensation"), "status",
                            <<"pending", "paid", "shipped">>), "paid")
        status == L.vars[1]
        paid   == L.vars[2]
        b1 == Invariant(L, "no_ship_unpaid", <<status, paid>>,
                [s \in Ids(L) |-> Get(s, status) # "shipped" \/ GetBool(s, paid)],
                [s \in Ids(L) |-> Set(s, status, "pending")])
        b2 == Event(b1, "force_ship", <<status>>, FALSE, Always(L),
                [s \in Ids(L) |-> Set(s, status, "shipped")])
    IN  DeclaredIndependence(b2)

\* example_test.go Example
CounterMachine ==
    LET L  == IntVar(NewBuilder("counter"), "count", 0, 10)
        c  == L.vars[1]
        b1 == Invariant(L, "cap_at_10", <<c>>,
                [s \in Ids(L) |-> GetInt(s, c) <= 10],
                [s \in Ids(L) |-> SetInt(s, c, 10)])
    IN  Event(b1, "increment", <<c>>, FALSE, Always(L),
                [s \in Ids(L) |-> SetInt(s, c, GetInt(s, c) + 1)])

\* README Quick Example
QuickStartMachine ==
    LET L      == Bool(Enum(NewBuilder("order_system"), "status",
                            <<"pending", "paid", "shipped">>), "paid")
        status == L.vars[1]
        paid   == L.vars[2]
        b1 == Invariant(L, "no_ship_unpaid", <<status, paid>>,
                [s \in Ids(L) |-> Get(s, status) # "shipped" \/ GetBool(s, paid)],
                [s \in Ids(L) |-> Set(s, status, "pending")])
        b2 == Event(b1, "pay", <<status, paid>>, FALSE, Always(L),
                [s \in Ids(L) |-> SetBool(Set(s, status, "paid"), paid, TRUE)])
    IN  Event(b2, "ship", <<status>>, FALSE, Always(L),
                [s \in Ids(L) |-> Set(s, status, "shipped")])

Scenarios ==
    {OrderMachine, CCFailureMachine, WFCFailureMachine, CompensationMachine,
     CounterMachine, QuickStartMachine}

\* ------------------------------------------------------------------------
\* Declarations: families built from small blocks through the same API
\* ------------------------------------------------------------------------
EvNames == <<"ev0", "ev1", "ev2">>

RECURSIVE AddInvariants(_, _, _)
AddInvariants(bd, list, k) ==
    IF k > Len(list) THEN bd
    ELSE AddInvariants(
            Invariant(bd, list[k].name, list[k].over, list[k].check,
                      list[k].repair),
            list, k + 1)

RECURSIVE AddEvents(_, _, _)
AddEvents(bd, list, k) ==
    IF k > Len(list) THEN bd
    ELSE AddEvents(
            Event(bd, EvNames[k], list[k].writes, list[k].hasGuard,
                  list[k].guard, list[k].effect),
            list, k + 1)

RECURSIVE AddIndependent(_, _, _)
AddIndependent(bd, pairs, k) ==
    IF k > Len(pairs) THEN bd
    ELSE AddIndependent(Independent(bd, pairs[k][1], pairs[k][2]), pairs, k + 1)

\* mode.declared = TRUE is a DeclaredIndependence() call; either way one
\* Independent() call per pair follows.
Declare(layout, invs, evs, mode) ==
    LET b1 == AddEvents(AddInvariants(layout, invs, 1), evs, 1)
    IN  IF mode.declared
        THEN AddIndependent(DeclaredIndependence(b1), mode.pairs, 1)
        ELSE AddIndependent(b1, mode.pairs, 1)

AllPairsMode == [declared |-> FALSE, pairs |-> <<>>]

Modes ==
    {AllPairsMode, [declared |-> TRUE, pairs |-> <<>>]}

PairModes ==
    {[declared |-> TRUE, pairs |-> ps] :
        ps \in {<< <<"ev0", "ev1">> >>, << <<"ev1", "ev0">> >>,
                << <<"ev0", "ev1">>, <<"ev1", "ev0">> >>}}

\* Family X: one Int x in [0,2] (2 bits, one padding id).
XLayout == IntVar(NewBuilder("gen_x"), "x", 0, 2)

XVar == XLayout.vars[1]

XChecks ==
    {[name |-> "ne1", check |-> [s \in Ids(XLayout) |-> GetInt(s, XVar) # 1]],
     [name |-> "ne2", check |-> [s \in Ids(XLayout) |-> GetInt(s, XVar) # 2]],
     [name |-> "le0", check |-> [s \in Ids(XLayout) |-> GetInt(s, XVar) <= 0]]}

XInvariants ==
    {[name |-> c.name, over |-> <<XVar>>, check |-> c.check,
      repair |-> [s \in Ids(XLayout) |-> SetInt(s, XVar, k)]] :
        c \in XChecks, k \in 0..2}

XInvLists ==
    {<<>>} \cup {<<i>> : i \in XInvariants}
    \cup {<<i, j>> : i \in XInvariants,
                     j \in {q \in XInvariants : q.name = "le0"}}
    \cup {<<i, j>> : i \in {q \in XInvariants : q.name = "ne1"},
                     j \in {q \in XInvariants : q.name = "ne2"}}

\* A handle of another builder: an Int in [0,3] at the same offset.  Written
\* through it, x + 1 is not cut down by SetInt to x's own range, so the
\* effect can leave the domain of x and clampState has to act.
WideVar == LastVar(IntVar(NewBuilder("other"), "y", 0, 3))

XEffects ==
    {[s \in Ids(XLayout) |-> SetInt(s, XVar, 1)],
     [s \in Ids(XLayout) |-> SetInt(s, XVar, 2)],
     [s \in Ids(XLayout) |-> SetInt(s, XVar, GetInt(s, XVar) + 1)],
     [s \in Ids(XLayout) |-> SetInt(s, WideVar, GetInt(s, WideVar) + 1)]}

XEvents ==
    {[writes |-> <<XVar>>, hasGuard |-> FALSE, guard |-> Always(XLayout),
      effect |-> f] : f \in XEffects}
    \cup
    {[writes |-> <<XVar>>, hasGuard |-> TRUE,
      guard |-> [s \in Ids(XLayout) |-> GetInt(s, XVar) = 0],
      effect |-> f] :
        f \in {[s \in Ids(XLayout) |-> SetInt(s, XVar, 2)],
               [s \in Ids(XLayout) |-> SetInt(s, XVar, GetInt(s, XVar) + 1)]}}

XEventLists ==
    {<<>>} \cup {<<e>> : e \in XEvents}
    \cup {<<e, f>> : e \in {q \in XEvents : ~q.hasGuard}, f \in XEvents}

FamilyX ==
    UNION {{Declare(XLayout, il, el, m) :
              m \in IF Len(el) < 2 THEN Modes
                    ELSE {AllPairsMode,
                          [declared |-> TRUE, pairs |-> << <<"ev1", "ev0">> >>]}} :
             il \in XInvLists, el \in XEventLists}

\* Family AB: two Bools a and b, invariants over {a,b} and over {b}.
ABLayout == Bool(Bool(NewBuilder("gen_ab"), "a"), "b")

AVar == ABLayout.vars[1]

BVar == ABLayout.vars[2]

ABInvariants ==
    {[name |-> "a_needs_b", over |-> <<AVar, BVar>>,
      check |-> [s \in Ids(ABLayout) |-> ~GetBool(s, AVar) \/ GetBool(s, BVar)],
      repair |-> [s \in Ids(ABLayout) |-> SetBool(s, AVar, FALSE)]],
     [name |-> "a_needs_b", over |-> <<AVar, BVar>>,
      check |-> [s \in Ids(ABLayout) |-> ~GetBool(s, AVar) \/ GetBool(s, BVar)],
      repair |-> [s \in Ids(ABLayout) |-> SetBool(s, BVar, TRUE)]],
     [name |-> "b_off", over |-> <<BVar>>,
      check |-> [s \in Ids(ABLayout) |-> ~GetBool(s, BVar)],
      repair |-> [s \in Ids(ABLayout) |-> SetBool(s, BVar, FALSE)]]}

ABInvLists ==
    {<<>>} \cup {<<i>> : i \in ABInvariants}
    \cup {<<i, j>> : i \in ABInvariants,
                     j \in {q \in ABInvariants : q.name = "b_off"}}

ABEvents ==
    {[writes |-> <<AVar>>, hasGuard |-> FALSE, guard |-> Always(ABLayout),
      effect |-> [s \in Ids(ABLayout) |-> SetBool(s, AVar, TRUE)]],
     [writes |-> <<AVar>>, hasGuard |-> FALSE, guard |-> Always(ABLayout),
      effect |-> [s \in Ids(ABLayout) |-> SetBool(s, AVar, ~GetBool(s, AVar))]],
     [writes |-> <<BVar>>, hasGuard |-> FALSE, guard |-> Always(ABLayout),
      effect |-> [s \in Ids(ABLayout) |-> SetBool(s, BVar, TRUE)]],
     [writes |-> <<BVar>>, hasGuard |-> FALSE, guard |-> Always(ABLayout),
      effect |-> [s \in Ids(ABLayout) |-> SetBool(s, BVar, FALSE)]],
     [writes |-> <<BVar>>, hasGuard |-> TRUE,
      guard |-> [s \in Ids(ABLayout) |-> GetBool(s, AVar)],
      effect |-> [s \in Ids(ABLayout) |-> SetBool(s, BVar, TRUE)]]}

ABEventLists ==
    {pr \in {<<e, f>> : e \in ABEvents, f \in ABEvents} : pr[1] # pr[2]}
    \cup {<<e, f, g>> : e \in {q \in ABEvents : q.writes = <<AVar>>},
                        f \in {q \in ABEvents : q.writes = <<BVar>>},
                        g \in {q \in ABEvents : q.hasGuard}}

FamilyAB ==
    UNION {{Declare(ABLayout, il, el, m) : m \in Modes \cup PairModes} :
             il \in ABInvLists, el \in ABEventLists}

\* Family Inc: one Int n over several ranges (zero and non-zero minimum,
\* domain a power of two or not), with the events n := n + k for k = 1, 2, 3.
IncLayouts ==
    {IntVar(NewBuilder("gen_inc"), "n", r[1], r[2]) :
        r \in {<<0, 2>>, <<1, 4>>, <<0, 3>>, <<-1, 1>>}}

IncNames == <<"add1", "add2", "add3">>

IncMachine(L) ==
    LET n == L.vars[1]
        add(bd, k) ==
            Event(bd, IncNames[k], <<n>>, FALSE, Always(L),
                  [s \in Ids(L) |-> SetInt(s, n, GetInt(s, n) + k)])
    IN  add(add(add(L, 1), 2), 3)

FamilyInc == {IncMachine(L) : L \in IncLayouts}

\* Family Wide: layouts of 21 and 22 bits (one of them with fewer than 2^20
\* in-domain states), with an invariant and a guarded event.  Their
\* closures have no point at which they can be evaluated: a Build that
\* called one of them would not return.
NeverCalled == [s \in {} |-> s]

WideDomains == {<<2097152>>, <<65, 65, 65>>, <<2048, 2048>>}

RECURSIVE WideLayout(_, _)
WideLayout(doms, k) ==
    IF k = 0 THEN NewBuilder("too_wide")
    ELSE IntVar(WideLayout(doms, k - 1), <<"v1", "v2", "v3">>[k],
                0, doms[k] - 1)

WideMachine(doms) ==
    LET L == WideLayout(doms, Len(doms))
        I == Invariant(L, "never", <<L.vars[1]>>, NeverCalled, NeverCalled)
    IN  Event(I, "never", <<L.vars[1]>>, TRUE, NeverCalled, NeverCalled)

FamilyWide == {WideMachine(doms) : doms \in WideDomains}

\* Family Call: three events over the two Bools and one Independent()
\* call, with no DeclaredIndependence() call.
IndependentOnlyMode == [declared |-> FALSE, pairs |-> << <<"ev0", "ev1">> >>]

FamilyCall ==
    {Declare(ABLayout, il, el, IndependentOnlyMode) :
        il \in ABInvLists, el \in {q \in ABEventLists : Len(q) = 3}}

\* Family Layout: declarations of two or three variables of every kind
\* (domain sizes 1, 2, 3, 5 and 7), without invariants or events.
VarSpecs ==
    {[kind |-> BoolKind, labels |-> <<>>, min |-> 0, max |-> 1],
     [kind |-> EnumKind, labels |-> <<"l0", "l1", "l2">>, min |-> 0, max |-> 0],
     [kind |-> EnumKind, labels |-> <<"l0", "l1", "l2", "l3", "l4">>,
      min |-> 0, max |-> 0],
     [kind |-> IntKind, labels |-> <<>>, min |-> 3, max |-> 3],
     [kind |-> IntKind, labels |-> <<>>, min |-> -2, max |-> 4]}

SmallVarSpecs == {sp \in VarSpecs : sp.kind # IntKind \/ sp.min = sp.max}

RECURSIVE DeclareVars(_, _, _)
DeclareVars(bd, specs, k) ==
    IF k > Len(specs) THEN bd
    ELSE LET sp == specs[k]
             nm == <<"v1", "v2", "v3">>[k]
         IN  DeclareVars(IF sp.kind = BoolKind THEN Bool(bd, nm)
                         ELSE IF sp.kind = EnumKind THEN Enum(bd, nm, sp.labels)
                         ELSE IntVar(bd, nm, sp.min, sp.max),
                         specs, k + 1)

FamilyLayout ==
    {DeclareVars(NewBuilder("gen_layout"), specs, 1) :
        specs \in (VarSpecs \X VarSpecs)
                  \cup (SmallVarSpecs \X SmallVarSpecs \X SmallVarSpecs)}

\* Family Dup: two Bools and events that set them, two or three of the
\* events declared under one name.
DupNameLists ==
    {<<"set", "set">>, <<"set", "set", "clear">>, <<"set", "clear", "set">>,
     <<"clear", "set", "set">>}

DupMachine(names) ==
    LET setA(bd, n) == Event(bd, n, <<AVar>>, FALSE, Always(ABLayout),
                             [s \in Ids(ABLayout) |-> SetBool(s, AVar, TRUE)])
        setB(bd, n) == Event(bd, n, <<BVar>>, FALSE, Always(ABLayout),
                             [s \in Ids(ABLayout) |-> SetBool(s, BVar, TRUE)])
        b2 == setB(setA(ABLayout, names[1]), names[2])
    IN  IF Len(names) = 2 THEN b2 ELSE setA(b2, names[3])

FamilyDup == {DupMachine(names) : names \in DupNameLists}

\* Family Stray: the invariant b_off is declared Over(b), and its repair
\* also sets a.
StrayInvariant ==
    [name |-> "b_off", over |-> <<BVar>>,
     check |-> [s \in Ids(ABLayout) |-> ~GetBool(s, BVar)],
     repair |-> [s \in Ids(ABLayout) |->
                    SetBool(SetBool(s, BVar, FALSE), AVar, TRUE)]]

FamilyStray ==
    {Declare(ABLayout, <<StrayInvariant>>, el, AllPairsMode) :
        el \in {q \in ABEventLists : Len(q) = 2}}

Declarations ==
    Scenarios \cup FamilyX \cup FamilyAB \cup FamilyInc \cup FamilyWide
    \cup FamilyDup \cup FamilyCall \cup FamilyLayout \cup FamilyStray

\* ------------------------------------------------------------------------
\* The program: declare, Build once, then use the machine
\* ------------------------------------------------------------------------
\* The in-domain states: every field's raw value below its domain size.
InDomain(bd, s) ==
    \A k \in 1..Len(bd.vars) : getRaw(s, bd.vars[k]) < bd.vars[k].domain

InDomainIds(bd) == {s \in Ids(bd) : InDomain(bd, s)}

Goroutines == 1..NumGoroutines

\* A goroutine that is not inside a call.
IdleCall ==
    [st |-> "idle", op |-> "", s |-> 0, event |-> "", ei |-> 0, ret |-> 0]

\* A Build call that has not started: no table is allocated.
IdleBuild ==
    [phase |-> "idle", valid |-> <<>>, nf |-> <<>>, step |-> <<>>,
     nfWrites |-> <<>>, stepWrites |-> <<>>, stepReads |-> {},
     i |-> 0, rs |-> 0, depth |-> 0, seen |-> {},
     e |-> 0, pairs |-> <<>>, k |-> 0, s |-> 0, brute |-> FALSE,
     maxRepair |-> 0, pairsDisjoint |-> 0, pairsBrute |-> 0,
     report |-> NilReport, err |-> ""]

Init ==
    /\ calls = [g \in Goroutines |-> IdleCall]
    /\ bld = IdleBuild
    /\ b \in Declarations
    /\ pc = "declared"
    /\ machine = NilMachine
    /\ report = NilReport
    /\ err = ""
    /\ cur = 0
    /\ hist = <<>>
    /\ op = "NewBuilder"
    /\ arg = 0
    /\ ret = 0

DoBuild ==
    /\ pc = "declared"
    /\ LET r == Build(b)
       IN  /\ machine' = r.machine
           /\ report' = r.report
           /\ err' = r.err
           /\ pc' = IF r.err = "" THEN "built" ELSE "failed"
    /\ op' = "Build"
    /\ UNCHANGED <<b, cur, hist, arg, ret, calls, bld>>

DoNewState ==
    /\ pc = "built"
    /\ cur' = NewState(machine)
    /\ hist' = <<>>
    /\ op' = "NewState"
    /\ arg' = 0
    /\ ret' = NewState(machine)
    /\ UNCHANGED <<b, pc, machine, report, err, calls, bld>>

DoApply ==
    /\ pc = "built"
    /\ Len(hist) < (IF Len(b.events) = 1 THEN MaxRepeats ELSE MaxApplies)
    /\ \E name \in DOMAIN machine.events :
        /\ cur' = Apply(machine, cur, name)
        /\ hist' = Append(hist, name)
        /\ op' = "Apply"
        /\ arg' = cur
        /\ ret' = Apply(machine, cur, name)
    /\ UNCHANGED <<b, pc, machine, report, err, calls, bld>>

\* Names a caller may pass that a machine may not know.
CallerNames == {"", "no_such_event", "ev0", "increment"}

\* Apply with a name missing from the event map: the call panics before it
\* reads a table, the caller gets no State and keeps the one it had.
DoApplyUnknown ==
    /\ pc = "built"
    /\ \E name \in CallerNames \ DOMAIN machine.events :
        /\ op' = "ApplyPanic"
        /\ arg' = cur
        /\ ret' = Apply(machine, cur, name)
    /\ UNCHANGED <<b, pc, machine, report, err, cur, hist, calls, bld>>

\* Normalize and IsValid take any in-domain State the caller has made with
\* NewState and the setters; they return a value and change nothing.  They
\* read neither cur nor hist, so they are followed only before the Apply
\* chain starts.
DoNormalize ==
    /\ pc = "built"
    /\ hist = <<>>
    /\ \E s \in InDomainIds(b) :
        /\ op' = "Normalize"
        /\ arg' = s
        /\ ret' = Normalize(machine, s)
    /\ UNCHANGED <<b, pc, machine, report, err, cur, hist, calls, bld>>

DoIsValid ==
    /\ pc = "built"
    /\ hist = <<>>
    /\ \E s \in InDomainIds(b) :
        /\ op' = "IsValid"
        /\ arg' = s
        /\ ret' = IF IsValid(machine, s) THEN 1 ELSE 0
    /\ UNCHANGED <<b, pc, machine, report, err, cur, hist, calls, bld>>

\* Events reads the event map and returns a fresh slice, or panics.
DoEvents ==
    /\ pc = "built"
    /\ hist = <<>>
    /\ op # "Events" /\ op # "EventsPanic"
    /\ arg' = 0
    /\ IF EventsPanics(machine)
       THEN op' = "EventsPanic" /\ ret' = PanicIndexOutOfRange
       ELSE op' = "Events" /\ ret' = Events(machine)
    /\ UNCHANGED <<b, pc, machine, report, err, cur, hist, calls, bld>>

\* Export reads the machine and writes the document, or panics in Events.
DoExport ==
    /\ pc = "built"
    /\ hist = <<>>
    /\ op # "Export" /\ op # "ExportPanic"
    /\ arg' = 0
    /\ IF EventsPanics(machine)
       THEN op' = "ExportPanic" /\ ret' = PanicIndexOutOfRange
       ELSE op' = "Export" /\ ret' = Export(machine)
    /\ UNCHANGED <<b, pc, machine, report, err, cur, hist, calls, bld>>

\* The setters work on any packed word and any Var handle of the builder;
\* each ends in setRaw.  The call returns a new State and changes nothing,
\* so it is followed only as the first call after Build or NewState.
DoSetRaw ==
    /\ pc = "built"
    /\ hist = <<>>
    /\ op \in {"Build", "NewState"}
    /\ \E s \in Ids(b), k \in 1..Len(b.vars) :
        \E r \in 0..(b.vars[k].domain - 1) :
            /\ op' = "setRaw"
            /\ arg' = [s |-> s, k |-> k, val |-> r]
            /\ ret' = setRaw(s, b.vars[k], r)
    /\ UNCHANGED <<b, pc, machine, report, err, cur, hist, calls, bld>>

\* How far outside the declared range a caller's integer may lie.
MaxExcess == 2

DoSetInt ==
    /\ pc = "built"
    /\ hist = <<>>
    /\ op \in {"Build", "NewState"}
    /\ \E s \in Ids(b), k \in 1..Len(b.vars) :
        /\ b.vars[k].kind = IntKind
        /\ \E x \in (b.vars[k].min - MaxExcess)
                      ..(b.vars[k].min + b.vars[k].domain - 1 + MaxExcess) :
            /\ op' = "SetInt"
            /\ arg' = [s |-> s, k |-> k, val |-> x]
            /\ ret' = SetInt(s, b.vars[k], x)
    /\ UNCHANGED <<b, pc, machine, report, err, cur, hist, calls, bld>>

Next ==
    \/ DoBuild \/ DoNewState \/ DoApply \/ DoApplyUnknown
    \/ DoNormalize \/ DoIsValid \/ DoEvents \/ DoExport

Spec == Init /\ [][Next]_vars

\* ------------------------------------------------------------------------
\* The state codec: a caller builds a machine, takes its initial State and
\* calls the setters with the Var handles of the builder.
\* ------------------------------------------------------------------------
CodecDeclarations == Scenarios \cup FamilyInc \cup FamilyLayout

InitCodec == Init /\ b \in CodecDeclarations

NextCodec == DoBuild \/ DoNewState \/ DoSetRaw \/ DoSetInt

SpecCodec == InitCodec /\ [][NextCodec]_vars

\* ------------------------------------------------------------------------
\* Build followed write by write: one step per iteration of the loops of
\* computeNormalForms (outer and inner), computeStepTables and verifyCC.  nfWrites and
\* stepWrites count the assignments to each table entry, stepReads holds
\* the <<event index, id>> entries verifyCC has read.
\* ------------------------------------------------------------------------
PhaseDeclarations ==
    Scenarios \cup FamilyInc \cup FamilyStray
    \cup {d \in FamilyX : d.allIndependent /\ Len(d.invariants) = 1}
    \cup {d \in FamilyX : Len(d.invariants) = 2 /\ Len(d.events) = 0}
    \cup {WideMachine(<<65, 65, 65>>)}

InitPhases == Init /\ b \in PhaseDeclarations

PhaseFrame == UNCHANGED <<b, pc, machine, report, err, cur, hist, op, arg, ret, calls>>

\* The size checks, the report, the validity mask and make([]uint64, packedCount).
BuildEnter ==
    /\ pc = "declared" /\ bld.phase = "idle"
    /\ IF b.totalBits > MaxBits \/ productFrom(b.vars, 1) > maxStateSpace
       THEN bld' = [IdleBuild EXCEPT !.phase = "return", !.err = "too_large"]
       ELSE LET packedCount == 2 ^ b.totalBits
                zeros == [id \in 0..(packedCount - 1) |-> 0]
            IN  bld' = [IdleBuild EXCEPT
                    !.phase = "nf",
                    !.report = [NilReport EXCEPT
                                   !.isNil = FALSE, !.Name = b.name,
                                   !.StateCount = productFrom(b.vars, 1),
                                   !.VarCount = Len(b.vars),
                                   !.EventCount = Len(b.events)],
                    !.valid = [id \in 0..(packedCount - 1) |->
                                  isValidEncoding(b, id)],
                    !.nf = zeros, !.nfWrites = zeros]
    /\ PhaseFrame

\* Variant: the entry of an id that is not a valid encoding is left as
\* make() zeroed it.
BuildNF_paddingUnwritten ==
    /\ bld.phase = "nf" /\ bld.i < 2 ^ b.totalBits
    /\ IF ~bld.valid[bld.i]
       THEN bld' = [bld EXCEPT !.nfWrites[bld.i] = @ + 1, !.i = @ + 1]
       ELSE bld' = [bld EXCEPT !.phase = "repair", !.rs = bld.i,
                               !.depth = 0, !.seen = {bld.i}]
    /\ PhaseFrame

\* The head of the first loop of computeNormalForms: an id that is not a
\* valid encoding gets nf[i] = i, any other id starts a repair sequence.
BuildNF ==
    /\ bld.phase = "nf" /\ bld.i < 2 ^ b.totalBits
    /\ IF ~bld.valid[bld.i]
       THEN bld' = [bld EXCEPT !.nf[bld.i] = bld.i,
                               !.nfWrites[bld.i] = @ + 1, !.i = @ + 1]
       ELSE bld' = [bld EXCEPT !.phase = "repair", !.rs = bld.i,
                               !.depth = 0, !.seen = {bld.i}]
    /\ PhaseFrame

\* Variant: the states a repair sequence passes are not added to seen.
BuildRepair_seenNotUpdated ==
    /\ bld.phase = "repair" /\ ~allInvariantsHold(b, bld.rs)
    /\ LET s2 == applyFirstRepair(b, bld.rs)
           d2 == bld.depth + 1
       IN  IF s2 \in bld.seen \/ d2 > bld.report.StateCount
           THEN bld' = [bld EXCEPT !.rs = s2, !.depth = d2,
                                   !.report.WFC = FALSE, !.err = "wfc",
                                   !.phase = "return"]
           ELSE bld' = [bld EXCEPT !.rs = s2, !.depth = d2]
    /\ PhaseFrame

\* One iteration of the inner loop: the first violated invariant's repair,
\* then the revisit and depth tests.
BuildRepair ==
    /\ bld.phase = "repair" /\ ~allInvariantsHold(b, bld.rs)
    /\ LET s2 == applyFirstRepair(b, bld.rs)
           d2 == bld.depth + 1
       IN  IF s2 \in bld.seen \/ d2 > bld.report.StateCount
           THEN bld' = [bld EXCEPT !.rs = s2, !.depth = d2,
                                   !.report.WFC = FALSE, !.err = "wfc",
                                   !.phase = "return"]
           ELSE bld' = [bld EXCEPT !.rs = s2, !.depth = d2,
                                   !.seen = @ \cup {s2}]
    /\ PhaseFrame

\* The inner loop has ended: nf[i] and the running maximum.
BuildNFWrite ==
    /\ bld.phase = "repair" /\ allInvariantsHold(b, bld.rs)
    /\ bld' = [bld EXCEPT
            !.nf[bld.i] = bld.rs, !.nfWrites[bld.i] = @ + 1, !.i = @ + 1,
            !.maxRepair = IF bld.depth > @ THEN bld.depth ELSE @,
            !.phase = "nf"]
    /\ PhaseFrame

\* After the loop: the report's WFC fields, the post-pass over the valid
\* states, and the allocation of the step tables.
BuildNFDone ==
    /\ bld.phase = "nf" /\ bld.i = 2 ^ b.totalBits
    /\ LET packedCount == 2 ^ b.totalBits
           zeros == [id \in 0..(packedCount - 1) |-> 0]
           rep == [bld.report EXCEPT !.WFC = TRUE,
                                     !.MaxRepairLen = bld.maxRepair]
       IN  IF \E i \in 0..(packedCount - 1) :
                 bld.valid[i] /\ allInvariantsHold(b, i) /\ bld.nf[i] # i
           THEN bld' = [bld EXCEPT !.report = rep, !.err = "moves_valid",
                                   !.phase = "return"]
           ELSE bld' = [bld EXCEPT
                    !.report = rep, !.phase = "step", !.e = 0, !.i = 0,
                    !.step = [e \in 1..Len(b.events) |-> zeros],
                    !.stepWrites = [e \in 1..Len(b.events) |-> zeros]]
    /\ PhaseFrame

\* One iteration of the inner loop of computeStepTables.
BuildStep ==
    /\ bld.phase = "step" /\ bld.e < Len(b.events)
    /\ LET i == bld.i
           e == bld.e
           after == clampState(b, applyEvent(b.events[e + 1], i))
           last == i + 1 = 2 ^ b.totalBits
           b1 == IF bld.valid[i]
                 THEN [bld EXCEPT !.step[e + 1][i] = bld.nf[after],
                                  !.stepWrites[e + 1][i] = @ + 1]
                 ELSE bld
       IN  bld' = [b1 EXCEPT !.i = IF last THEN 0 ELSE i + 1,
                             !.e = IF last THEN e + 1 ELSE e]
    /\ PhaseFrame

\* computeStepTables returns; verifyCC builds pairsToCheck.
BuildStepDone ==
    /\ bld.phase = "step" /\ bld.e = Len(b.events)
    /\ bld' = [bld EXCEPT !.phase = "cc", !.pairs = pairsToCheck(b),
                          !.k = 1, !.brute = FALSE]
    /\ PhaseFrame

\* The head of the pair loop: discharged by disjointness, or brute force.
BuildCCPair ==
    /\ bld.phase = "cc" /\ ~bld.brute /\ bld.k <= Len(bld.pairs)
    /\ IF eventsDisjoint(b, bld.pairs[bld.k][1], bld.pairs[bld.k][2])
       THEN bld' = [bld EXCEPT !.pairsDisjoint = @ + 1, !.k = @ + 1]
       ELSE bld' = [bld EXCEPT !.pairsBrute = @ + 1, !.brute = TRUE, !.s = 0]
    /\ PhaseFrame

\* Variant: the brute-force loop stores the composed result back into the
\* step table.
BuildCCState_memoizes ==
    /\ bld.phase = "cc" /\ bld.brute
    /\ LET i == bld.pairs[bld.k][1]
           j == bld.pairs[bld.k][2]
           s == bld.s
       IN  IF s = 2 ^ b.totalBits
           THEN bld' = [bld EXCEPT !.brute = FALSE, !.k = @ + 1]
           ELSE IF ~bld.valid[s]
           THEN bld' = [bld EXCEPT !.s = s + 1]
           ELSE bld' = [bld EXCEPT
                    !.s = s + 1,
                    !.step[i + 1][s] = bld.step[j + 1][bld.step[i + 1][s]]]
    /\ PhaseFrame

\* One iteration of the state loop of verifyCC.
BuildCCState ==
    /\ bld.phase = "cc" /\ bld.brute
    /\ LET i == bld.pairs[bld.k][1]
           j == bld.pairs[bld.k][2]
           s == bld.s
       IN  IF s = 2 ^ b.totalBits
           THEN bld' = [bld EXCEPT !.brute = FALSE, !.k = @ + 1]
           ELSE IF ~bld.valid[s]
           THEN bld' = [bld EXCEPT !.s = s + 1]
           ELSE LET si == bld.step[i + 1][s]
                    sj == bld.step[j + 1][s]
                    after_ij == bld.step[j + 1][si]
                    after_ji == bld.step[i + 1][sj]
                    reads == bld.stepReads
                               \cup {<<i, s>>, <<j, si>>, <<j, s>>, <<i, sj>>}
                IN  IF after_ij # after_ji
                    THEN bld' = [bld EXCEPT
                            !.stepReads = reads,
                            !.report = [@ EXCEPT
                                !.CC = FALSE,
                                !.PairsTotal = bld.pairsDisjoint + bld.pairsBrute,
                                !.PairsDisjoint = bld.pairsDisjoint,
                                !.PairsBrute = bld.pairsBrute,
                                !.CCFailure =
                                    [isNil |-> FALSE,
                                     Event1 |-> b.events[i + 1].name,
                                     Event2 |-> b.events[j + 1].name,
                                     State |-> s,
                                     Result1 |-> after_ij,
                                     Result2 |-> after_ji]],
                            !.err = "cc", !.phase = "return"]
                    ELSE bld' = [bld EXCEPT !.stepReads = reads, !.s = s + 1]
    /\ PhaseFrame

\* After the pair loop.
BuildCCDone ==
    /\ bld.phase = "cc" /\ ~bld.brute /\ bld.k > Len(bld.pairs)
    /\ bld' = [bld EXCEPT
            !.report = [@ EXCEPT
                !.CC = TRUE,
                !.PairsTotal = bld.pairsDisjoint + bld.pairsBrute,
                !.PairsDisjoint = bld.pairsDisjoint,
                !.PairsBrute = bld.pairsBrute],
            !.phase = "return"]
    /\ PhaseFrame

\* Build returns (machine, report, error).
BuildReturn ==
    /\ bld.phase = "return"
    /\ bld' = [bld EXCEPT !.phase = "returned"]
    /\ machine' = IF bld.err = ""
                  THEN [isNil |-> FALSE, name |-> b.name, vars |-> b.vars,
                        events |-> eventMap(b), step |-> bld.step,
                        nf |-> bld.nf]
                  ELSE NilMachine
    /\ report' = bld.report
    /\ err' = bld.err
    /\ pc' = IF bld.err = "" THEN "built" ELSE "failed"
    /\ op' = "Build"
    /\ UNCHANGED <<b, cur, hist, arg, ret, calls>>

NextPhases ==
    \/ BuildEnter \/ BuildNF \/ BuildRepair \/ BuildNFWrite \/ BuildNFDone
    \/ BuildStep \/ BuildStepDone
    \/ BuildCCPair \/ BuildCCState \/ BuildCCDone \/ BuildReturn
    \/ DoNewState \/ DoApply \/ DoNormalize

SpecPhases == InitPhases /\ [][NextPhases]_vars

\* Build is one sequential call: once entered it runs until it returns.
BuildSteps ==
    \/ BuildEnter \/ BuildNF \/ BuildRepair \/ BuildNFWrite \/ BuildNFDone
    \/ BuildStep \/ BuildStepDone
    \/ BuildCCPair \/ BuildCCState \/ BuildCCDone \/ BuildReturn

SpecPhasesFair == SpecPhases /\ WF_vars(BuildSteps)

\* ------------------------------------------------------------------------
\* A caller that holds one State: NewState, then the setters with the Var
\* handles of the same builder, Apply and Normalize, each call on the
\* State the call before returned.
\* ------------------------------------------------------------------------
\* The effect that writes through the handle of another builder.
ForeignEffect ==
    [s \in Ids(XLayout) |-> SetInt(s, WideVar, GetInt(s, WideVar) + 1)]

ApiDeclarations ==
    Scenarios \cup FamilyInc \cup FamilyStray \cup FamilyLayout
    \cup {d \in FamilyX :
            /\ d.allIndependent /\ Len(d.invariants) = 1
            /\ \A k \in 1..Len(d.events) : d.events[k].effect # ForeignEffect}

InitApi == Init /\ b \in ApiDeclarations

\* s.Set(v, label) with one of v's labels.
CallSet ==
    /\ pc = "built"
    /\ \E k \in 1..Len(b.vars) : \E n \in 1..Len(b.vars[k].labels) :
        /\ cur' = Set(cur, b.vars[k], b.vars[k].labels[n])
        /\ op' = "Set"
        /\ arg' = [s |-> cur, k |-> k, val |-> n - 1]
        /\ ret' = Set(cur, b.vars[k], b.vars[k].labels[n])
    /\ UNCHANGED <<b, pc, machine, report, err, hist, calls, bld>>

\* s.SetBool(v, val); the handle may be of any kind.
CallSetBool ==
    /\ pc = "built"
    /\ \E k \in 1..Len(b.vars) : \E val \in BOOLEAN :
        /\ cur' = SetBool(cur, b.vars[k], val)
        /\ op' = "SetBool"
        /\ arg' = [s |-> cur, k |-> k, val |-> IF val THEN 1 ELSE 0]
        /\ ret' = SetBool(cur, b.vars[k], val)
    /\ UNCHANGED <<b, pc, machine, report, err, hist, calls, bld>>

\* s.SetInt(v, x); the handle may be of any kind.
CallSetInt ==
    /\ pc = "built"
    /\ \E k \in 1..Len(b.vars) :
        \E x \in (b.vars[k].min - MaxExcess)
                   ..(b.vars[k].min + b.vars[k].domain - 1 + MaxExcess) :
            /\ cur' = SetInt(cur, b.vars[k], x)
            /\ op' = "SetInt"
            /\ arg' = [s |-> cur, k |-> k, val |-> x]
            /\ ret' = SetInt(cur, b.vars[k], x)
    /\ UNCHANGED <<b, pc, machine, report, err, hist, calls, bld>>

\* s = m.Apply(s, name); the chain of names is not recorded, the State the
\* caller holds alone determines what can follow.
CallApply ==
    /\ pc = "built"
    /\ \E name \in DOMAIN machine.events :
        /\ cur' = Apply(machine, cur, name)
        /\ op' = "Apply"
        /\ arg' = cur
        /\ ret' = Apply(machine, cur, name)
    /\ UNCHANGED <<b, pc, machine, report, err, hist, calls, bld>>

\* s = m.Normalize(s)
CallNormalize ==
    /\ pc = "built"
    /\ cur' = Normalize(machine, cur)
    /\ op' = "Normalize"
    /\ arg' = cur
    /\ ret' = Normalize(machine, cur)
    /\ UNCHANGED <<b, pc, machine, report, err, hist, calls, bld>>

NextApi ==
    \/ BuildEnter \/ BuildNF \/ BuildRepair \/ BuildNFWrite \/ BuildNFDone
    \/ BuildStep \/ BuildStepDone
    \/ BuildCCPair \/ BuildCCState \/ BuildCCDone \/ BuildReturn
    \/ DoNewState
    \/ CallSet \/ CallSetBool \/ CallSetInt \/ CallApply \/ CallNormalize

SpecApi == InitApi /\ [][NextApi]_vars

\* ------------------------------------------------------------------------
\* Concurrent callers: after Build, several goroutines call Apply,
\* Normalize and IsValid on the one machine.  A call is followed read by
\* read: Apply reads the event map, then the step table; Normalize and
\* IsValid read the nf table.
\* ------------------------------------------------------------------------
ConcDeclarations ==
    {CompensationMachine,
     IncMachine(IntVar(NewBuilder("gen_inc"), "n", 0, 2))}

InitConc == Init /\ b \in ConcDeclarations

Call(g) ==
    /\ pc = "built"
    /\ calls[g].st = "idle"
    /\ \E s \in InDomainIds(b) :
          \/ \E name \in DOMAIN machine.events :
                calls' = [calls EXCEPT ![g] =
                    [IdleCall EXCEPT !.st = "called", !.op = "Apply",
                                     !.s = s, !.event = name]]
          \/ \E o \in {"Normalize", "IsValid"} :
                calls' = [calls EXCEPT ![g] =
                    [IdleCall EXCEPT !.st = "called", !.op = o, !.s = s]]
    /\ UNCHANGED <<b, pc, machine, report, err, cur, hist, op, arg, ret, bld>>

\* Variant: the looked-up index is also left in the machine's event map.
Lookup_sharedSlot(g) ==
    /\ calls[g].st = "called" /\ calls[g].op = "Apply"
    /\ calls' = [calls EXCEPT ![g].st = "looked",
                              ![g].ei = machine.events[calls[g].event]]
    /\ machine' = [machine EXCEPT !.events =
                      ("" :> machine.events[calls[g].event]) @@ @]
    /\ UNCHANGED <<b, pc, report, err, cur, hist, op, arg, ret, bld>>

\* ei, ok := m.events[event]
Lookup(g) ==
    /\ calls[g].st = "called" /\ calls[g].op = "Apply"
    /\ calls' = [calls EXCEPT ![g].st = "looked",
                              ![g].ei = machine.events[calls[g].event]]
    /\ UNCHANGED <<b, pc, machine, report, err, cur, hist, op, arg, ret, bld>>

\* m.step[ei][s.packed]
ReadStep(g) ==
    /\ calls[g].st = "looked"
    /\ calls' = [calls EXCEPT ![g].st = "done",
                              ![g].ret = machine.step[calls[g].ei + 1][calls[g].s]]
    /\ UNCHANGED <<b, pc, machine, report, err, cur, hist, op, arg, ret, bld>>

\* m.nf[s.packed], compared with s.packed by IsValid
ReadNF(g) ==
    /\ calls[g].st = "called" /\ calls[g].op \in {"Normalize", "IsValid"}
    /\ calls' = [calls EXCEPT ![g].st = "done",
                    ![g].ret = IF calls[g].op = "Normalize"
                               THEN machine.nf[calls[g].s]
                               ELSE IF machine.nf[calls[g].s] = calls[g].s
                                    THEN 1 ELSE 0]
    /\ UNCHANGED <<b, pc, machine, report, err, cur, hist, op, arg, ret, bld>>

Return(g) ==
    /\ calls[g].st = "done"
    /\ calls' = [calls EXCEPT ![g] = IdleCall]
    /\ UNCHANGED <<b, pc, machine, report, err, cur, hist, op, arg, ret, bld>>

NextConc ==
    \/ DoBuild
    \/ \E g \in Goroutines :
          Call(g) \/ Lookup(g) \/ ReadStep(g) \/ ReadNF(g) \/ Return(g)

SpecConc == InitConc /\ [][NextConc]_vars

\* ------------------------------------------------------------------------
\* Reference semantics used by the properties (stated from the
\* declaration alone, never from the tables)
\* ------------------------------------------------------------------------
\* Every invariant's check is true on s.
Holds(bd, s) == \A k \in 1..Len(bd.invariants) : bd.invariants[k].check[s]

ValidIds(bd) == {s \in InDomainIds(bd) : Holds(bd, s)}

\* The repair of the lowest-indexed violated invariant (s itself if none).
RefRepairOnce(bd, s) ==
    LET viol == {k \in 1..Len(bd.invariants) : ~bd.invariants[k].check[s]}
    IN  IF viol = {} THEN s ELSE bd.invariants[SetMin(viol)].repair[s]

\* The state after n steps of the repair sequence from s (a state on which
\* every invariant holds is where the sequence stays).
RECURSIVE RefIter(_, _, _)
RefIter(bd, s, n) ==
    IF n = 0 \/ Holds(bd, s) THEN s
    ELSE RefIter(bd, RefRepairOnce(bd, s), n - 1)

\* The repair sequence from s revisits a state before reaching a valid one.
RefRevisits(bd, s) ==
    \E k \in 1..Cardinality(InDomainIds(bd)) :
        /\ \A m \in 0..(k - 1) : ~Holds(bd, RefIter(bd, s, m))
        /\ \E j \in 0..(k - 1) : RefIter(bd, s, j) = RefIter(bd, s, k)

\* Repeated repair until all invariants hold (cut off after every in-domain
\* state could have been visited once).
RefNormalForm(bd, s) == RefIter(bd, s, Cardinality(InDomainIds(bd)))

\* Every field cut down to at most domain - 1.
RECURSIVE RefClampSum(_, _, _)
RefClampSum(bd, s, k) ==
    IF k > Len(bd.vars) THEN 0
    ELSE LET v == bd.vars[k]
             r == getRaw(s, v)
         IN  (IF r > v.domain - 1 THEN v.domain - 1 ELSE r) * (2 ^ v.offset)
             + RefClampSum(bd, s, k + 1)

RefStep(bd, e, s) ==
    LET ev   == bd.events[e + 1]
        post == IF ev.hasGuard /\ ~ev.guard[s] THEN s ELSE ev.effect[s]
    IN  RefNormalForm(bd, RefClampSum(bd, post, 1))

RECURSIVE Run(_, _, _)
Run(m, s, names) ==
    IF names = <<>> THEN s
    ELSE Run(m, Apply(m, s, Head(names)), Tail(names))

Orderings(names) ==
    {[i \in 1..Len(names) |-> names[f[i]]] : f \in Permutations(1..Len(names))}

LastEvent == b.events[machine.events[hist[Len(hist)]] + 1]

\* ------------------------------------------------------------------------
\* Properties
\* ------------------------------------------------------------------------

\* C1: on a machine built in all-pairs mode, every ordering of the events
\* applied so far from NewState() ends in the state the applied order
\* reached.
C1_PermutationClosure ==
    (pc = "built" /\ b.allIndependent) =>
        \A o \in Orderings(hist) : Run(machine, NewState(machine), o) = cur

\* C2: on a built machine, every pair selected for CC checking (discharged
\* by disjointness or by brute force) commutes on every in-domain state on
\* which all invariants hold.
C2_CheckedPairsCommute ==
    (pc = "built" /\ op = "Build") =>
        \A k \in 1..Len(pairsToCheck(b)) : \A s \in ValidIds(b) :
            LET e1 == pairsToCheck(b)[k][1] + 1
                e2 == pairsToCheck(b)[k][2] + 1
            IN  machine.step[e2][machine.step[e1][s]]
                    = machine.step[e1][machine.step[e2][s]]

\* C3: on a built machine, Apply of any event to an in-domain state on
\* which all invariants hold returns an in-domain state on which all
\* invariants hold.
C3_StepLandsValid ==
    (pc = "built") =>
        /\ (op = "Build" =>
              \A name \in DOMAIN machine.events : \A s \in ValidIds(b) :
                  /\ InDomain(b, Apply(machine, s, name))
                  /\ Holds(b, Apply(machine, s, name)))
        /\ (op = "Apply" /\ arg \in ValidIds(b) => ret \in ValidIds(b))

\* An Apply from a valid state whose raw post-state violated an invariant.
C3_Witness ==
    /\ pc = "built" /\ op = "Apply"
    /\ arg \in ValidIds(b)
    /\ ~Holds(b, applyEvent(LastEvent, arg))
    /\ ret \in ValidIds(b)

\* C4: on a built machine, Apply(s, e) is the state obtained by guard /
\* effect, then clamping, then repeated repair of the lowest-indexed
\* violated invariant, for every event and in-domain state.
C4_ApplyMatchesReference ==
    (pc = "built") =>
        /\ (op = "Build" =>
              \A name \in DOMAIN machine.events : \A s \in InDomainIds(b) :
                  Apply(machine, s, name) = RefStep(b, machine.events[name], s))
        /\ (op = "Apply" =>
              ret = RefStep(b, machine.events[hist[Len(hist)]], arg))

\* An Apply of a guarded event whose guard was true and whose effect was
\* then changed by repair.
C4_Witness ==
    /\ pc = "built" /\ op = "Apply"
    /\ LastEvent.hasGuard /\ LastEvent.guard[arg]
    /\ ret # LastEvent.effect[arg]
    /\ ret # arg

\* C5: on a built machine, Normalize(Normalize(s)) = Normalize(s) for every
\* in-domain state s.
C5_NormalizeIdempotent ==
    (pc = "built") =>
        /\ (op = "Build" =>
              \A s \in InDomainIds(b) :
                  machine.nf[machine.nf[s]] = machine.nf[s])
        /\ (op = "Normalize" => Normalize(machine, ret) = ret)

\* A Normalize call that needed more than one repair.
C5_Witness ==
    /\ pc = "built" /\ op = "Normalize"
    /\ ret # arg
    /\ ret # RefRepairOnce(b, arg)

\* C6: on a built machine, NF[s] = s for every in-domain state s on which
\* all invariants hold, and Normalize returns such a state unchanged.
C6_RepairIdentityOnValid ==
    (pc = "built") =>
        /\ (op = "Build" => \A s \in ValidIds(b) :
              machine.nf[s] = s /\ Normalize(machine, s) = s)
        /\ (op = "Normalize" /\ arg \in ValidIds(b) => ret = arg)

\* A Normalize call on a valid state of a machine that also has invalid
\* in-domain states.
C6_Witness ==
    /\ pc = "built" /\ op = "Normalize"
    /\ arg \in ValidIds(b) /\ ret = arg
    /\ ValidIds(b) # InDomainIds(b)

\* C7: on a built machine, IsValid(s) is true exactly when every declared
\* invariant's check holds on s, for every in-domain state s.
C7_IsValidIffInvariantsHold ==
    (pc = "built") =>
        /\ (op = "Build" => \A s \in InDomainIds(b) :
              IsValid(machine, s) <=> Holds(b, s))
        /\ (op = "IsValid" => ((ret = 1) <=> Holds(b, arg)))

\* An IsValid call that returned false.
C7_Witness ==
    /\ pc = "built" /\ op = "IsValid"
    /\ ret = 0 /\ ~Holds(b, arg)

\* C8: Build fails with a WFC violation (error, report.WFC false, no
\* machine) exactly when the repair sequence of some in-domain state
\* revisits a state before reaching a valid one; otherwise WFC passes and
\* the machine's NF[s] is the valid end of that sequence.  The cycling
\* machine (x != 1 -> x := 2, x != 2 -> x := 1) is rejected.
C8_WFCFailureIffRevisit ==
    (op = "Build" /\ err # "too_large") =>
        /\ (err = "wfc" /\ ~report.WFC /\ machine.isNil)
              <=> (\E s \in InDomainIds(b) : RefRevisits(b, s))
        /\ (~(\E s \in InDomainIds(b) : RefRevisits(b, s)) =>
              /\ report.WFC
              /\ (pc = "built" => \A s \in InDomainIds(b) :
                    /\ machine.nf[s] = RefNormalForm(b, s)
                    /\ machine.nf[s] \in ValidIds(b)))
        /\ (b = WFCFailureMachine => err = "wfc" /\ machine.isNil)

\* Build has rejected a declaration for a cycle that starts after a first
\* repair step (the start state itself is not on the cycle).
C8_Witness ==
    /\ pc = "failed" /\ err = "wfc" /\ ~report.WFC /\ machine.isNil
    /\ \E s \in InDomainIds(b) :
          /\ RefRevisits(b, s)
          /\ \A k \in 1..Cardinality(InDomainIds(b)) : RefIter(b, s, k) # s

\* C9: when some brute-force-checked pair does not commute, Build returns
\* an error, no machine, report.CC false and the first mismatch in
\* enumeration order (pairs in order, states by ascending id) with both
\* results.  The bad_machine scenario reports (inc_one, inc_two, x=2, 0, 1).
C9_CCFailureIsFirstMismatch ==
    (op = "Build" /\ err \notin {"too_large", "wfc", "moves_valid"}) =>
        LET pairs == pairsToCheck(b)
            r12(k, s) == RefStep(b, pairs[k][2], RefStep(b, pairs[k][1], s))
            r21(k, s) == RefStep(b, pairs[k][1], RefStep(b, pairs[k][2], s))
            differ(k) == {s \in InDomainIds(b) : r12(k, s) # r21(k, s)}
            bad == {k \in 1..Len(pairs) :
                       /\ ~eventsDisjoint(b, pairs[k][1], pairs[k][2])
                       /\ differ(k) # {}}
        IN  /\ (bad # {}) =>
                LET k0 == SetMin(bad)
                    s0 == SetMin(differ(k0))
                IN  /\ err = "cc" /\ pc = "failed" /\ machine.isNil
                    /\ ~report.CC
                    /\ report.CCFailure =
                         [isNil |-> FALSE,
                          Event1 |-> b.events[pairs[k0][1] + 1].name,
                          Event2 |-> b.events[pairs[k0][2] + 1].name,
                          State |-> s0,
                          Result1 |-> r12(k0, s0),
                          Result2 |-> r21(k0, s0)]
                    /\ report.CCFailure.Result1 # report.CCFailure.Result2
            /\ (b = CCFailureMachine =>
                    report.CCFailure =
                        [isNil |-> FALSE, Event1 |-> "inc_one",
                         Event2 |-> "inc_two", State |-> 2,
                         Result1 |-> 0, Result2 |-> 1])

\* Build has failed CC at a state that is not the lowest id, on a pair
\* that also differs at a higher id.
C9_Witness ==
    /\ pc = "failed" /\ err = "cc" /\ ~report.CCFailure.isNil
    /\ report.CCFailure.State > 0
    /\ \E s \in InDomainIds(b) :
          /\ s > report.CCFailure.State
          /\ LET i == eventIndex(b, report.CCFailure.Event1)
                 j == eventIndex(b, report.CCFailure.Event2)
             IN  RefStep(b, j, RefStep(b, i, s)) # RefStep(b, i, RefStep(b, j, s))

\* C10: the order-fulfillment declaration builds; WFC passes with maximum
\* repair depth 1; CC passes over 3 pairs; the initial state is
\* {pending, false, 0}; and place_order, restock, process_payment, ship_item
\* ends where restock, place_order, process_payment, ship_item ends.
C10_OrderFulfillment ==
    (b.name = "order_fulfillment" /\ pc # "declared") =>
        LET order1 == <<"place_order", "restock", "process_payment", "ship_item">>
            order2 == <<"restock", "place_order", "process_payment", "ship_item">>
            s0 == NewState(machine)
        IN  /\ pc = "built" /\ err = "" /\ ~machine.isNil
            /\ report.WFC /\ report.MaxRepairLen = 1
            /\ report.CC /\ report.PairsTotal = 3
            /\ Get(s0, b.vars[1]) = "pending"
            /\ GetBool(s0, b.vars[2]) = FALSE
            /\ GetInt(s0, b.vars[3]) = 0
            /\ (hist = <<>> => cur = s0)
            /\ (hist = order1 => cur = Run(machine, s0, order2))
            /\ (hist = order2 => cur = Run(machine, s0, order1))

\* The first ordering has been applied and the order is shipped.
C10_Witness ==
    /\ b.name = "order_fulfillment" /\ pc = "built"
    /\ hist = <<"place_order", "restock", "process_payment", "ship_item">>
    /\ Get(cur, b.vars[1]) = "shipped"
    /\ GetBool(cur, b.vars[2])
    /\ GetInt(cur, b.vars[3]) = 0

\* The events of the declarations whose effect is n := n + k on an Int
\* variable, as <<event name, position of the variable, k>>.
Increments(bd) ==
    IF bd.name = "counter" THEN {<<"increment", 1, 1>>}
    ELSE IF bd.name = "bad_machine" THEN {<<"inc_one", 1, 1>>, <<"inc_two", 1, 2>>}
    ELSE IF bd.name = "order_fulfillment" THEN {<<"restock", 3, 1>>}
    ELSE IF bd.name = "gen_inc" THEN {<<IncNames[k], 1, k>> : k \in 1..3}
    ELSE {}

Repeat(x, n) == [i \in 1..n |-> x]

\* C11: an effect x := x + k on an Int variable in [min, max] leaves, before
\* normalization, the value min(x + k, max) (no wrap modulo 2^w); Apply
\* returns that value whenever it violates no invariant.  The counter
\* machine builds with WFC depth 0 and CC passing, and fifteen increments
\* from the initial state give count = 10.
C11_IncrementSaturates ==
    /\ (op = "Build") =>
          \A inc \in Increments(b) : \A s \in InDomainIds(b) :
              LET ev   == b.events[eventIndex(b, inc[1]) + 1]
                  v    == b.vars[inc[2]]
                  max  == v.min + v.domain - 1
                  want == IF GetInt(s, v) + inc[3] > max THEN max
                          ELSE GetInt(s, v) + inc[3]
                  pre  == clampState(b, applyEvent(ev, s))
              IN  /\ GetInt(pre, v) = want
                  /\ (pc = "built" /\ Holds(b, pre) =>
                        GetInt(Apply(machine, s, inc[1]), v) = want)
    /\ (pc = "built" /\ op = "Apply") =>
          \A inc \in Increments(b) :
              (inc[1] = hist[Len(hist)]
                 /\ Holds(b, clampState(b, applyEvent(LastEvent, arg)))) =>
                  LET v   == b.vars[inc[2]]
                      max == v.min + v.domain - 1
                  IN  GetInt(ret, v) = (IF GetInt(arg, v) + inc[3] > max THEN max
                                        ELSE GetInt(arg, v) + inc[3])
    /\ (b.name = "counter" /\ pc # "declared") =>
          /\ pc = "built" /\ report.WFC /\ report.MaxRepairLen = 0 /\ report.CC
          /\ GetInt(Run(machine, NewState(machine), Repeat("increment", 15)),
                    b.vars[1]) = 10
          /\ (hist = Repeat("increment", 15) => GetInt(cur, b.vars[1]) = 10)

\* The counter after fifteen increments: the last five met the top of the
\* range.
C11_Witness ==
    /\ b.name = "counter" /\ pc = "built" /\ op = "Apply"
    /\ hist = Repeat("increment", 15)
    /\ GetInt(arg, b.vars[1]) = 10
    /\ GetInt(cur, b.vars[1]) = 10

\* C12: where the guard of an event is false the event is a no-op: on a
\* built machine, for every event e and in-domain state s on which e's guard
\* is false (the nil guard is tabulated as constantly true, so a false
\* guard is a present one), Apply(s, e) = s when s satisfies every
\* invariant, and Apply(s, e) = NF[s] when it does not.
C12_FalseGuardIsNoOp ==
    /\ (pc = "built" /\ op = "Build") =>
          \A i \in 1..Len(b.events) : \A s \in InDomainIds(b) :
              ~b.events[i].guard[s] =>
                  /\ Apply(machine, s, b.events[i].name) = RefNormalForm(b, s)
                  /\ Apply(machine, s, b.events[i].name) = Normalize(machine, s)
                  /\ Holds(b, s) => Apply(machine, s, b.events[i].name) = s
    /\ (pc = "built" /\ op = "Apply" /\ ~LastEvent.guard[arg]) => ret = arg

\* An Apply of a guarded event on a reached state where its guard is false,
\* on a machine that also has an invalid in-domain state where it is false.
C12_Witness ==
    /\ pc = "built" /\ op = "Apply"
    /\ LastEvent.hasGuard /\ ~LastEvent.guard[arg]
    /\ Holds(b, arg) /\ ret = arg /\ cur = arg
    /\ \E s \in InDomainIds(b) :
          /\ ~Holds(b, s) /\ ~LastEvent.guard[s]
          /\ Apply(machine, s, LastEvent.name) = machine.nf[s]
          /\ Apply(machine, s, LastEvent.name) # s

\* C13: Apply with a name that is not in the event map panics and returns
\* no State (also for every in-domain state and caller name, on the built
\* tables); the failed call changes neither the machine nor the state the
\* caller holds, and the call that follows it returns what the declaration
\* alone prescribes for that state.
C13_UnknownEventFailsCallOnly ==
    /\ [](/\ (op = "ApplyPanic" => ret = PanicUnknownEvent)
          /\ (pc = "built" /\ op = "Build") =>
                \A name \in CallerNames \ DOMAIN machine.events :
                    \A s \in InDomainIds(b) :
                        Apply(machine, s, name) = PanicUnknownEvent)
    /\ [][/\ op' = "ApplyPanic" =>
                /\ machine' = machine /\ report' = report
                /\ cur' = cur /\ hist' = hist
          /\ (op = "ApplyPanic" /\ op' = "Apply") =>
                /\ arg' = arg
                /\ ret' = RefStep(b, machine.events[hist'[Len(hist')]], arg)
          /\ (op = "ApplyPanic" /\ op' = "Normalize") =>
                ret' = RefNormalForm(b, arg')
          /\ (op = "ApplyPanic" /\ op' = "IsValid") =>
                (ret' = 1) = Holds(b, arg')
          /\ (op = "ApplyPanic" /\ op' = "ApplyPanic") =>
                ret' = PanicUnknownEvent]_vars

\* A failed Apply between two successful ones.
C13_Witness ==
    /\ pc = "built" /\ op = "ApplyPanic"
    /\ ret = PanicUnknownEvent
    /\ Len(hist) >= 1 /\ arg = cur /\ cur # NewState(machine)
    /\ \E name \in DOMAIN machine.events : Apply(machine, cur, name) # cur

\* C14: a declaration without events whose repairs are well-founded builds:
\* no error, WFC and CC pass with zero pairs checked, and the machine's
\* event map is empty, so Apply panics with unknown-event for every name
\* and state.  (Without events Build can only fail in the WFC phase.)
C14_NoEventsBuilds ==
    /\ (Len(b.events) = 0 /\ op = "Build" /\ err # "too_large") =>
          /\ err \in {"", "wfc"}
          /\ (~(\E s \in InDomainIds(b) : RefRevisits(b, s))) =>
                /\ pc = "built" /\ err = "" /\ ~machine.isNil
                /\ report.WFC /\ report.CC /\ report.CCFailure.isNil
                /\ report.EventCount = 0
                /\ report.PairsTotal = 0 /\ report.PairsDisjoint = 0
                /\ report.PairsBrute = 0
                /\ DOMAIN machine.events = {}
                /\ \A name \in CallerNames : \A s \in InDomainIds(b) :
                      Apply(machine, s, name) = PanicUnknownEvent
    /\ (Len(b.events) = 0 /\ pc = "built") =>
          /\ hist = <<>>
          /\ op \in {"Build", "NewState", "ApplyPanic", "Normalize", "IsValid",
                   "Events", "Export"}

\* A failed Apply on a machine built from invariants alone, some of whose
\* states need repair.
C14_Witness ==
    /\ Len(b.events) = 0 /\ Len(b.invariants) > 0 /\ pc = "built"
    /\ report.CC /\ report.PairsTotal = 0
    /\ op = "ApplyPanic" /\ ret = PanicUnknownEvent
    /\ \E s \in InDomainIds(b) : ~Holds(b, s)

\* C15: Build fails with state-space-too-large exactly when the declared
\* variables take more than 20 bits; then it returns no machine, and it
\* returns at all only because it evaluated no check, repair, guard or
\* effect (those of the too-wide declarations cannot be evaluated).  The
\* in-domain state count is at most 2^B, so within 20 bits it never
\* exceeds the 2^20 ceiling.
C15_TooLargeIffOver20Bits ==
    /\ productFrom(b.vars, 1) <= 2 ^ b.totalBits
    /\ (b.totalBits <= 20 => productFrom(b.vars, 1) <= 1048576)
    /\ (pc # "declared") =>
          /\ (err = "too_large") <=> (b.totalBits > 20)
          /\ (err = "too_large") => (pc = "failed" /\ machine.isNil)
          /\ (b.totalBits <= 20 /\ pc = "failed") => err \in {"wfc", "cc"}

\* Build has rejected a 21-bit declaration that has fewer than 2^20
\* in-domain states and closures that cannot be evaluated.
C15_Witness ==
    /\ pc = "failed" /\ op = "Build" /\ err = "too_large" /\ machine.isNil
    /\ b.totalBits = 21 /\ productFrom(b.vars, 1) < 1048576
    /\ b.invariants[1].check = NeverCalled
    /\ b.events[1].hasGuard /\ b.events[1].effect = NeverCalled

\* C16: whenever Build returns an error it returns no machine and a
\* non-nil report describing what failed.
C16_ReportOnEveryError ==
    (pc = "failed") =>
        /\ err # "" /\ machine.isNil
        /\ ~report.isNil
        /\ report.Name = b.name /\ report.EventCount = Len(b.events)

\* C17: in the default all-pairs mode Build checks exactly the pairs (i, j)
\* with 0 <= i < j < n of the n declared events, each once and none with
\* itself; when Build succeeds PairsTotal = n(n-1)/2, split between the
\* pairs discharged by disjointness and those checked by brute force.
C17_AllPairsUpperTriangle ==
    (op = "Build" /\ b.allIndependent /\ b.totalBits <= 20) =>
        LET n     == Len(b.events)
            pairs == pairsToCheck(b)
        IN  /\ {pairs[k] : k \in 1..Len(pairs)}
                  = {<<i, j>> : i \in 0..(n - 1), j \in 0..(n - 1)}
                    \ {p \in (0..(n - 1)) \X (0..(n - 1)) : p[1] >= p[2]}
            /\ \A k, l \in 1..Len(pairs) : pairs[k] = pairs[l] => k = l
            /\ \A k \in 1..Len(pairs) : pairs[k][1] < pairs[k][2]
            /\ (pc = "built") =>
                  /\ report.PairsTotal = (n * (n - 1)) \div 2
                  /\ report.PairsTotal = Len(pairs)
                  /\ report.PairsTotal
                        = report.PairsDisjoint + report.PairsBrute
                  /\ report.PairsDisjoint
                        = Cardinality({k \in 1..Len(pairs) :
                              eventFootprint(b, pairs[k][1])
                                \cap eventFootprint(b, pairs[k][2]) = {}})

\* Build has succeeded in all-pairs mode on three events: three pairs, some
\* of them checked by brute force.
C17_Witness ==
    /\ pc = "built" /\ op = "Build" /\ b.allIndependent
    /\ b.independent = <<>>
    /\ Len(b.events) = 3 /\ report.PairsTotal = 3
    /\ report.PairsBrute > 0

\* The declared pairs as unordered pairs of event indices.
DeclaredUnordered(bd) ==
    {{bd.independent[k][1], bd.independent[k][2]} :
        k \in 1..Len(bd.independent)}

\* C18: in declared-pairs mode Build checks only the declared pairs, each
\* with i < j and each unordered pair once however often and in whichever
\* order it was declared; on success PairsTotal is the number of distinct
\* unordered pairs declared.
C18_DeclaredPairsDeduplicated ==
    (op = "Build" /\ ~b.allIndependent /\ b.totalBits <= 20) =>
        LET pairs == pairsToCheck(b)
        IN  /\ {{pairs[k][1], pairs[k][2]} : k \in 1..Len(pairs)}
                  = DeclaredUnordered(b)
            /\ \A k \in 1..Len(pairs) : pairs[k][1] <= pairs[k][2]
            /\ \A k, l \in 1..Len(pairs) : pairs[k] = pairs[l] => k = l
            /\ (pc = "built") =>
                  report.PairsTotal = Cardinality(DeclaredUnordered(b))

\* C19: the exhaustive CC check compares the two orders only from
\* in-domain start states on which every invariant holds: a pair whose
\* orders agree from every such state passes, and a reported
\* counterexample starts at such a state.
C19_CCFromValidStatesOnly ==
    (op = "Build" /\ b.totalBits <= 20) =>
        /\ (err = "cc") =>
              /\ report.CCFailure.State \in InDomainIds(b)
              /\ Holds(b, report.CCFailure.State)
        /\ (pc # "declared" /\ err # "wfc"
              /\ \A k \in 1..Len(pairsToCheck(b)) : \A s \in ValidIds(b) :
                    LET i == pairsToCheck(b)[k][1]
                        j == pairsToCheck(b)[k][2]
                    IN  RefStep(b, j, RefStep(b, i, s))
                          = RefStep(b, i, RefStep(b, j, s)))
           => pc = "built"

\* C20: with any number of goroutines inside Apply, Normalize and IsValid
\* calls on one built machine, in any interleaving of their reads, every
\* call returns what it returns when run alone (the machine's operation
\* on its argument, which is what the declaration prescribes), and no step
\* of a call changes the nf table, the step tables or the event map.
C20_ConcurrentCallsAreReads ==
    /\ [](\A g \in Goroutines : calls[g].st = "done" =>
            LET c == calls[g]
            IN  /\ c.op = "Apply" =>
                      /\ c.ret = Apply(machine, c.s, c.event)
                      /\ c.ret = RefStep(b, eventIndex(b, c.event), c.s)
                /\ c.op = "Normalize" =>
                      /\ c.ret = Normalize(machine, c.s)
                      /\ c.ret = RefNormalForm(b, c.s)
                /\ c.op = "IsValid" =>
                      /\ (c.ret = 1) = IsValid(machine, c.s)
                      /\ (c.ret = 1) = Holds(b, c.s))
    /\ [][pc = "built" =>
            /\ machine'.nf = machine.nf
            /\ machine'.step = machine.step
            /\ machine'.events = machine.events
            /\ machine' = machine]_vars

\* Two goroutines inside calls at once: one between the two reads of an
\* Apply that changes its argument, the other with the result of a
\* Normalize that repaired its argument.
C20_Witness ==
    /\ pc = "built"
    /\ calls[1].st = "looked" /\ calls[1].op = "Apply"
    /\ Apply(machine, calls[1].s, calls[1].event) # calls[1].s
    /\ calls[2].st = "done" /\ calls[2].op = "Normalize"
    /\ calls[2].ret # calls[2].s

\* C21 as the README states it: the quick-start machine builds with 6
\* states, WFC passing at repair depth 1 and CC passing with 1 pair (1
\* disjoint, 0 brute force), and ship then pay from the initial state ends
\* in {status=paid, paid=true}.
C21_QuickStartBuilds ==
    (b = QuickStartMachine /\ pc # "declared") =>
        /\ pc = "built" /\ err = ""
        /\ report.StateCount = 6
        /\ report.WFC /\ report.MaxRepairLen = 1
        /\ report.CC /\ report.PairsTotal = 1
        /\ report.PairsDisjoint = 1 /\ report.PairsBrute = 0
        /\ Run(machine, NewState(machine), <<"ship", "pay">>)
              = SetBool(Set(0, b.vars[1], "paid"), b.vars[2], TRUE)

\* C21: Build rejects the quick-start machine.  It has 6 states and WFC
\* passes at repair depth 1, but pay and ship both touch the footprint of
\* no_ship_unpaid, so the pair goes to brute force (1 pair, 0 disjoint, 1
\* brute force) and fails at the initial state: pay then ship gives
\* {status=shipped, paid=true}, ship then pay gives {status=paid,
\* paid=true}.  No machine is returned.
C21_QuickStartRejected ==
    (b = QuickStartMachine /\ pc # "declared") =>
        /\ pc = "failed" /\ err = "cc" /\ machine.isNil
        /\ report.StateCount = 6 /\ report.VarCount = 2
        /\ report.EventCount = 2
        /\ report.WFC /\ report.MaxRepairLen = 1
        /\ ~report.CC /\ report.PairsTotal = 1
        /\ report.PairsDisjoint = 0 /\ report.PairsBrute = 1
        /\ report.CCFailure =
              [isNil |-> FALSE, Event1 |-> "pay", Event2 |-> "ship",
               State |-> NewState(machine),
               Result1 |-> SetBool(Set(0, b.vars[1], "shipped"), b.vars[2], TRUE),
               Result2 |-> SetBool(Set(0, b.vars[1], "paid"), b.vars[2], TRUE)]
        /\ RefStep(b, 0, RefStep(b, 1, 0))
              = SetBool(Set(0, b.vars[1], "paid"), b.vars[2], TRUE)

\* Build has run on the quick-start declaration and reported the pair.
C21_Witness ==
    /\ b = QuickStartMachine /\ op = "Build" /\ pc = "failed"
    /\ ~report.CCFailure.isNil /\ report.PairsBrute = 1

\* C22: on every built machine Events() returns the declared event names
\* in declaration order, one entry per declared event, and Apply with the
\* i-th entry reads the step table of the i-th declared event.
C22_EventsInDeclarationOrder ==
    (pc = "built") =>
        /\ (op = "Build") =>
              /\ ~EventsPanics(machine)
              /\ Events(machine) = [i \in 1..Len(b.events) |-> b.events[i].name]
              /\ \A i \in 1..Len(Events(machine)) : \A s \in InDomainIds(b) :
                    Apply(machine, s, Events(machine)[i]) = machine.step[i][s]
        /\ op # "EventsPanic"
        /\ (op = "Events") =>
              ret = [i \in 1..Len(b.events) |-> b.events[i].name]

\* The document d carries the tables of the built machine and a runtime
\* loaded from d alone agrees with the machine.
ExportAgrees(d) ==
    /\ d.events = [i \in 1..Len(b.events) |-> b.events[i].name]
    /\ Len(d.nf) = 2 ^ b.totalBits
    /\ \A id \in Ids(b) : d.nf[id + 1] = machine.nf[id]
    /\ Len(d.step) = Len(b.events)
    /\ \A e \in 1..Len(d.step) :
          /\ Len(d.step[e]) = 2 ^ b.totalBits
          /\ \A id \in Ids(b) : d.step[e][id + 1] = machine.step[e][id]
    /\ \A s \in InDomainIds(b) :
          /\ LoadedNormalize(d, s) = Normalize(machine, s)
          /\ LoadedIsValid(d, s) = IsValid(machine, s)
          /\ \A i \in 1..Len(b.events) :
                /\ b.events[i].name \in DOMAIN LoadedEvents(d)
                /\ LoadedApply(d, s, b.events[i].name)
                      = Apply(machine, s, b.events[i].name)
                /\ LoadedApply(d, s, b.events[i].name) = RefStep(b, i - 1, s)

\* C23: Export of a built machine writes a document with the event names
\* by index, nf of length 2^B with nf[id] = NF[id] and one step array of
\* length 2^B per event, and a runtime that reads only the document
\* (apply = step[index(event)][id], normalize = nf[id], is_valid =
\* nf[id] == id) agrees with Apply, Normalize and IsValid on every
\* in-domain state and every declared event.
C23_ExportReloadIdentity ==
    (pc = "built") =>
        /\ (op = "Build") =>
              ~EventsPanics(machine) /\ ExportAgrees(Export(machine))
        /\ op # "ExportPanic"
        /\ (op = "Export") => ExportAgrees(ret)

\* C24: a call of Independent switches Build to declared-pairs mode by
\* itself: after Independent calls and no mode call, Build checks only the
\* declared pairs (counting only them) and no other pair of events.
C24_IndependentSwitchesMode ==
    (op = "Build" /\ b.totalBits <= 20 /\ b.independent # <<>>) =>
        LET pairs == pairsToCheck(b)
        IN  /\ {{pairs[k][1], pairs[k][2]} : k \in 1..Len(pairs)}
                  = DeclaredUnordered(b)
            /\ (pc = "built") => report.PairsTotal = Len(b.independent)

\* The variables an event declares it writes.
WriteSet(bd, ei) ==
    {bd.events[ei + 1].writes[k] : k \in 1..Len(bd.events[ei + 1].writes)}

\* C25: the influence set used by the disjointness test holds every
\* variable the event writes and the footprint of every invariant whose
\* footprint overlaps the write set, so a pair is discharged without
\* comparing any state only when the two write sets are disjoint and the
\* footprints of the invariants the two events can trigger are disjoint.
C25_DisjointnessCoversWrites ==
    (op = "Build" /\ b.totalBits <= 20) =>
        /\ \A e \in 0..(Len(b.events) - 1) :
              /\ WriteSet(b, e) \subseteq eventFootprint(b, e)
              /\ \A k \in 1..Len(b.invariants) :
                    LET fp == {b.invariants[k].footprint[n] :
                                  n \in 1..Len(b.invariants[k].footprint)}
                    IN  fp \cap WriteSet(b, e) # {}
                            => fp \subseteq eventFootprint(b, e)
        /\ \A e, f \in 0..(Len(b.events) - 1) :
              (e # f /\ eventsDisjoint(b, e, f))
                  => WriteSet(b, e) \cap WriteSet(b, f) = {}

\* The invariants violated on s, by position.
Violated(bd, s) == {k \in 1..Len(bd.invariants) : ~bd.invariants[k].check[s]}

\* C26: normalization fires one repair per step, that of the
\* lowest-indexed invariant violated on the current state, also when
\* several are violated; the normal form of s is the normal form of the
\* state that repair gives, so a later invariant's repair acts only on a
\* state where every earlier invariant holds.
C26_LowestViolatedRepairFires ==
    /\ (op = "Build" /\ b.totalBits <= 20) =>
          \A s \in InDomainIds(b) :
              /\ Violated(b, s) = {} => applyFirstRepair(b, s) = s
              /\ Violated(b, s) # {} =>
                    /\ applyFirstRepair(b, s)
                          = b.invariants[SetMin(Violated(b, s))].repair[s]
                    /\ (pc = "built") =>
                          /\ machine.nf[s]
                                = machine.nf[b.invariants[SetMin(Violated(b, s))].repair[s]]
                          /\ Violated(b, machine.nf[s]) = {}
    /\ (pc = "built" /\ op = "Normalize") =>
          /\ ret = RefNormalForm(b, arg)
          /\ Violated(b, ret) = {}

\* Normalize on a state that violates two invariants at once: the repair
\* of the first leaves a state on which only a later invariant is
\* violated, and the repair of that one then fires.
C26_Witness ==
    /\ pc = "built" /\ op = "Normalize"
    /\ Cardinality(Violated(b, arg)) >= 2
    /\ LET k1 == SetMin(Violated(b, arg))
           s1 == b.invariants[k1].repair[arg]
       IN  /\ Violated(b, s1) # {}
           /\ SetMin(Violated(b, s1)) > k1
           /\ ret = b.invariants[SetMin(Violated(b, s1))].repair[s1]
           /\ ret # s1 /\ s1 # arg

\* The least w with 2^w >= D.
CeilLog2(D) == CHOOSE w \in 0..32 : 2 ^ w >= D /\ \A u \in 0..(w - 1) : 2 ^ u < D

RECURSIVE WidthsBefore(_, _)
WidthsBefore(vs, k) == IF k <= 1 THEN 0 ELSE vs[k - 1].bits + WidthsBefore(vs, k - 1)

\* C27: after any sequence of Bool/Enum/Int declarations every variable has
\* width ceil(log2 D) (a Bool one bit), its offset is the sum of the widths
\* declared before it and B is the sum of all widths; a packed id passes
\* the encoding test iff every field's raw value is below its variable's
\* domain size, so code 3 of a three-label enum is out of domain.
C27_LayoutAndDomainTest ==
    /\ \A k \in 1..Len(b.vars) :
          LET v == b.vars[k]
          IN  /\ v.index = k - 1
              /\ v.bits = CeilLog2(v.domain)
              /\ (v.kind = BoolKind) => (v.bits = 1 /\ v.domain = 2)
              /\ (v.kind = EnumKind) => v.domain = Len(v.labels)
              /\ v.offset = WidthsBefore(b.vars, k)
    /\ b.totalBits = WidthsBefore(b.vars, Len(b.vars) + 1)
    /\ (b.totalBits <= 20 /\ op = "NewBuilder") =>
          \A id \in Ids(b) :
              /\ isValidEncoding(b, id)
                    <=> \A k \in 1..Len(b.vars) :
                            (id \div (2 ^ WidthsBefore(b.vars, k)))
                                % (2 ^ CeilLog2(b.vars[k].domain))
                              < b.vars[k].domain
              /\ \A k \in 1..Len(b.vars) :
                    (b.vars[k].kind = EnumKind /\ b.vars[k].domain = 3
                        /\ getRaw(id, b.vars[k]) = 3)
                      => ~isValidEncoding(b, id)
    /\ (pc = "built" /\ op \in {"Normalize", "IsValid"}) =>
          isValidEncoding(b, arg)

\* Build has run on a layout whose second variable is a three-label enum
\* that follows a field of non-zero width and precedes a zero-width one;
\* some id below 2^B has the enum's code 3.
C27_Witness ==
    /\ pc = "built" /\ op = "Build" /\ Len(b.vars) = 3
    /\ b.vars[1].bits > 0
    /\ b.vars[2].kind = EnumKind /\ b.vars[2].domain = 3
    /\ b.vars[2].offset = b.vars[1].bits
    /\ b.vars[3].bits = 0
    /\ \E id \in Ids(b) : getRaw(id, b.vars[2]) = 3 /\ ~isValidEncoding(b, id)
    /\ report.StateCount < 2 ^ b.totalBits

\* C28: a field write with a raw value below the variable's domain size is
\* read back unchanged, leaves every other variable's field and the bits
\* above B as they were, and writing back the value just read, before or
\* after the write, returns the same id.
C28_FieldRoundTripAndFrame ==
    (op = "setRaw") =>
        LET v == b.vars[arg.k]
        IN  /\ getRaw(ret, v) = arg.val
            /\ \A j \in 1..Len(b.vars) :
                  j # arg.k => getRaw(ret, b.vars[j]) = getRaw(arg.s, b.vars[j])
            /\ ret \div (2 ^ b.totalBits) = arg.s \div (2 ^ b.totalBits)
            /\ setRaw(arg.s, v, getRaw(arg.s, v)) = arg.s
            /\ setRaw(ret, v, getRaw(ret, v)) = ret

\* A write that changes the middle field of three while a later field is
\* non-zero.
C28_Witness ==
    /\ op = "setRaw" /\ Len(b.vars) = 3 /\ arg.k = 2
    /\ getRaw(arg.s, b.vars[2]) # arg.val /\ arg.val # 0
    /\ getRaw(arg.s, b.vars[1]) # 0 /\ getRaw(arg.s, b.vars[3]) # 0
    /\ ret # arg.s

\* C29: SetInt stores min(max(x, min), max): GetInt of the result is the
\* clamped value, the field's raw value is below the domain size and every
\* other variable reads as before.
C29_SetIntClamps ==
    (op = "SetInt") =>
        LET v   == b.vars[arg.k]
            max == v.min + v.domain - 1
            lo  == IF arg.val > v.min THEN arg.val ELSE v.min
            want == IF lo < max THEN lo ELSE max
        IN  /\ GetInt(ret, v) = want
            /\ want \in v.min..max
            /\ getRaw(ret, v) < v.domain
            /\ \A j \in 1..Len(b.vars) :
                  j # arg.k => getRaw(ret, b.vars[j]) = getRaw(arg.s, b.vars[j])

\* SetInt with a value above the maximum of a variable whose minimum is not
\* zero, in a state whose other field is non-zero.
C29_Witness ==
    /\ op = "SetInt" /\ Len(b.vars) >= 2
    /\ b.vars[arg.k].min # 0
    /\ arg.val > b.vars[arg.k].min + b.vars[arg.k].domain - 1
    /\ GetInt(ret, b.vars[arg.k]) = b.vars[arg.k].min + b.vars[arg.k].domain - 1
    /\ ret # arg.s
    /\ \E j \in 1..Len(b.vars) : j # arg.k /\ getRaw(arg.s, b.vars[j]) # 0

\* SetInt with a value below the minimum.
C29_WitnessBelow ==
    /\ op = "SetInt" /\ arg.val < b.vars[arg.k].min
    /\ GetInt(ret, b.vars[arg.k]) = b.vars[arg.k].min /\ ret # arg.s

\* The product of the first k declared domain sizes.
RECURSIVE DomainProduct(_, _)
DomainProduct(vs, k) == IF k = 0 THEN 1 ELSE DomainProduct(vs, k - 1) * vs[k].domain

\* C30: whenever Build returns a report, its StateCount is the product of
\* the declared domain sizes, which is the number of ids below 2^B that
\* pass the in-domain test: 11 for the counter, 48 for order fulfillment.
C30_StateCountIsInDomainCount ==
    (op = "Build" /\ ~report.isNil) =>
        /\ report.StateCount = DomainProduct(b.vars, Len(b.vars))
        /\ report.StateCount = Cardinality(InDomainIds(b))
        /\ report.StateCount
              = Cardinality({id \in Ids(b) : isValidEncoding(b, id)})
        /\ report.VarCount = Len(b.vars)
        /\ (b = CounterMachine) => report.StateCount = 11
        /\ (b = OrderMachine) => report.StateCount = 48

\* Build has reported on order fulfillment, whose 6 bits hold 64 ids.
C30_Witness ==
    /\ op = "Build" /\ ~report.isNil /\ b = OrderMachine
    /\ report.StateCount = 48 /\ Cardinality(Ids(b)) = 64

\* Build has reported the count of a declaration that it rejected.
C30_WitnessFailed ==
    /\ op = "Build" /\ ~report.isNil /\ err # ""
    /\ report.StateCount = Cardinality(InDomainIds(b))
    /\ report.StateCount < Cardinality(Ids(b))

\* Some invariant's repair, at an in-domain state that violates it, changes
\* a variable that is not in the invariant's footprint.
RepairStrays(bd) ==
    \E k \in 1..Len(bd.invariants) : \E s \in InDomainIds(bd) :
        LET inv == bd.invariants[k]
        IN  /\ ~inv.check[s]
            /\ \E j \in 1..Len(bd.vars) :
                  /\ \A n \in 1..Len(inv.footprint) : inv.footprint[n] # j - 1
                  /\ getRaw(inv.repair[s], bd.vars[j]) # getRaw(s, bd.vars[j])

\* C31: Build returns an error and no machine for a declaration in which
\* some repair changes a variable outside its invariant's footprint.
C31_StrayRepairRejected ==
    (op = "Build" /\ b.totalBits <= 20 /\ RepairStrays(b)) =>
        (machine.isNil /\ err # "" /\ pc = "failed")

\* Some invariant's repair changes an in-domain state on which that
\* invariant's check is true.
RepairMovesValid(bd) ==
    \E k \in 1..Len(bd.invariants) : \E s \in InDomainIds(bd) :
        bd.invariants[k].check[s] /\ bd.invariants[k].repair[s] # s

\* C32: when some invariant's repair changes a state on which its check is
\* true, Build fails with the repair-moves-valid-state error (or with the
\* WFC error of the loop that runs before the post-pass).
C32_MovesValidDetected ==
    (op = "Build" /\ b.totalBits <= 20 /\ RepairMovesValid(b)) =>
        (pc = "failed" /\ machine.isNil /\ err \in {"moves_valid", "wfc"})

\* The post-pass of computeNormalForms never fires.
MovesValidNeverReported == err # "moves_valid"

\* The lowest in-domain id whose repair sequence does not terminate.
FirstOffender(bd) == SetMin({s \in InDomainIds(bd) : RefRevisits(bd, s)})

\* The States a report carries: those of its CCFailure, if it has one.
ReportStates(rep) ==
    IF rep.isNil \/ rep.CCFailure.isNil THEN {}
    ELSE {rep.CCFailure.State, rep.CCFailure.Result1, rep.CCFailure.Result2}

\* C33: when Build fails the WFC check, the report it returns carries the
\* first offending state, the lowest in-domain id whose repair sequence
\* does not terminate.
C33_WFCReportNamesFirstOffender ==
    (op = "Build" /\ err = "wfc") =>
        (~report.isNil /\ FirstOffender(b) \in ReportStates(report))

\* Build followed write by write returns what Build computes.
PhasesAgreeWithBuild ==
    (bld.phase = "returned") =>
        /\ machine = Build(b).machine
        /\ report = Build(b).report
        /\ err = Build(b).err

\* Every entry of the table is counted once.
WrittenOnce(counts, ids) == \A id \in ids : counts[id] = 1

\* The write-once and phase-order conditions on the state a step leads to.
TablesInOrder(bd, t) ==
    LET ids == 0..(2 ^ bd.totalBits - 1)
        events == 1..Len(t.stepWrites)
    IN  (t.nfWrites # <<>>) =>
          /\ \A id \in ids : t.nfWrites[id] <= 1
          /\ \A e \in events : \A id \in ids :
                /\ t.stepWrites[e][id] <= 1
                /\ t.stepWrites[e][id] = 1
                      => (t.valid[id] /\ WrittenOnce(t.nfWrites, ids))
          /\ (t.phase \in {"step", "cc"} \/ t.err \in {"cc"}
                \/ (t.phase \in {"return", "returned"} /\ t.err = ""))
                => WrittenOnce(t.nfWrites, ids)
          /\ (t.stepReads # {} \/ t.phase = "cc"
                \/ (t.phase \in {"return", "returned"} /\ t.err \in {"", "cc"}))
                => \A e \in 1..Len(bd.events) :
                       WrittenOnce(t.stepWrites[e], {id \in ids : t.valid[id]})

\* C34: every nf entry is written exactly once, all of them before a step
\* entry is computed; every step entry of an in-domain id is written
\* exactly once, all of them before verifyCC reads one; verifyCC changes
\* neither table; no table changes after Build has returned.
C34_PhasesWriteOnce ==
    [][/\ TablesInOrder(b, bld')
       /\ (bld.phase = "cc")
            => (bld'.nf = bld.nf /\ bld'.step = bld.step
                /\ bld'.nfWrites = bld.nfWrites
                /\ bld'.stepWrites = bld.stepWrites)
       /\ (bld.phase = "step") => bld'.nf = bld.nf
       /\ (bld.phase = "returned")
            => (machine' = machine /\ bld' = bld)
       /\ (bld.phase = "return" /\ bld.err = "")
            => (machine'.nf = bld.nf /\ machine'.step = bld.step)]_vars

\* Build has returned a machine after verifyCC compared a pair state by
\* state, and Apply has since been called on it.
C34_Witness ==
    /\ bld.phase = "returned" /\ pc = "built" /\ op = "Apply"
    /\ bld.pairsBrute > 0 /\ bld.stepReads # {}
    /\ \E id \in DOMAIN bld.valid : ~bld.valid[id]
    /\ \E id \in DOMAIN bld.nf : bld.nf[id] # id
    /\ machine.nf = bld.nf /\ machine.step = bld.step

\* C35: compensation stability (CC2) on every built machine: for every
\* event e and in-domain state s, step[e][nf[s]] = step[e][s].
C35_CompensationStability ==
    (pc = "built" /\ op = "Build") =>
        \A e \in 1..Len(b.events) : \A s \in InDomainIds(b) :
            machine.step[e][machine.nf[s]] = machine.step[e][s]

\* Every variable that is followed by a variable of two or more values has
\* a power of two as its domain size.
NoInnerPadding(bd) ==
    \A k \in 1..Len(bd.vars) :
        (\E j \in (k + 1)..Len(bd.vars) : bd.vars[j].domain >= 2)
            => bd.vars[k].domain = 2 ^ CeilLog2(bd.vars[k].domain)

\* C36 as stated: the in-domain states of a built machine are exactly the
\* ids 0, 1, ..., N-1, N the product of the domain sizes.
C36_IdsContiguous ==
    (pc = "built" /\ op = "Build") =>
        InDomainIds(b) = 0..(DomainProduct(b.vars, Len(b.vars)) - 1)

\* C36 amended: the in-domain states of a built machine are N ids below
\* 2^B, the ids whose every field is below its variable's domain size;
\* they are the ids 0..N-1 exactly when no variable with a domain size
\* that is not a power of two is followed by a variable of two or more
\* values.
C36_IdsContiguousIffNoInnerPadding ==
    (pc = "built" /\ op = "Build") =>
        LET N == DomainProduct(b.vars, Len(b.vars))
        IN  /\ Cardinality(InDomainIds(b)) = N
            /\ InDomainIds(b) \subseteq 0..(2 ^ b.totalBits - 1)
            /\ InDomainIds(b) = {id \in Ids(b) : isValidEncoding(b, id)}
            /\ (InDomainIds(b) = 0..(N - 1)) <=> NoInnerPadding(b)
            /\ \A id \in InDomainIds(b) : machine.nf[id] \in InDomainIds(b)

\* A built machine whose in-domain ids have a gap: some id below N is out
\* of domain and some in-domain id is N or more.
C36_Witness ==
    /\ pc = "built" /\ op = "Build" /\ ~NoInnerPadding(b)
    /\ \E id \in 0..(report.StateCount - 1) : id \notin InDomainIds(b)
    /\ \E id \in InDomainIds(b) : id >= report.StateCount

\* A built machine of two or more variables, one of them with a domain size
\* that is not a power of two, whose in-domain ids are 0..N-1.
C36_WitnessContiguous ==
    /\ pc = "built" /\ op = "Build" /\ Len(b.vars) >= 2
    /\ \E k \in 1..Len(b.vars) : b.vars[k].domain # 2 ^ b.vars[k].bits
    /\ InDomainIds(b) = 0..(report.StateCount - 1)

\* The number of repair applications from s to the first state on which
\* every invariant holds (for a start state whose sequence terminates).
RefDepth(bd, s) ==
    CHOOSE n \in 0..Cardinality(InDomainIds(bd)) :
        /\ Holds(bd, RefIter(bd, s, n))
        /\ \A m \in 0..(n - 1) : ~Holds(bd, RefIter(bd, s, m))

\* C37: when WFC passes, MaxRepairLen is the largest number of repair
\* applications any in-domain state needs to reach its normal form: no
\* state needs more, some state needs exactly that many, and it is 0 when
\* every in-domain state is valid.
C37_MaxRepairLenIsLongestChain ==
    (op = "Build" /\ ~report.isNil /\ report.WFC) =>
        /\ \A s \in InDomainIds(b) :
              /\ RefDepth(b, s) <= report.MaxRepairLen
              /\ RefIter(b, s, report.MaxRepairLen) = RefNormalForm(b, s)
              /\ (pc = "built") =>
                    machine.nf[s] = RefIter(b, s, RefDepth(b, s))
        /\ \E s \in InDomainIds(b) : RefDepth(b, s) = report.MaxRepairLen
        /\ (report.MaxRepairLen = 0) <=> (ValidIds(b) = InDomainIds(b))

\* A report whose longest chain has two repairs, while a state with a
\* higher id needs one and another needs none.
C37_Witness ==
    /\ op = "Build" /\ ~report.isNil /\ report.WFC
    /\ report.MaxRepairLen = 2
    /\ \E s, u, v \in InDomainIds(b) :
          /\ RefDepth(b, s) = 2 /\ RefDepth(b, u) = 1 /\ RefDepth(b, v) = 0
          /\ u > s

\* C38: padding entries are never read.  nf is the identity on ids that are
\* out of domain; every step entry verifyCC reads is at an in-domain id;
\* the State a caller holds after NewState and any sequence of setters,
\* Apply and Normalize is in-domain, as is every id the tables return for
\* an in-domain id; and an effect written with the setters returns an
\* in-domain state from every in-domain state, which clampState leaves as
\* it is.
C38_PaddingNeverRead ==
    /\ (bld.phase \in {"nf", "repair", "step", "cc", "return", "returned"}
            /\ bld.err # "too_large") =>
          /\ \A id \in Ids(b) :
                (~InDomain(b, id) /\ bld.nfWrites[id] = 1) => bld.nf[id] = id
          /\ \A rd \in bld.stepReads : InDomain(b, rd[2])
    /\ InDomain(b, cur)
    /\ (pc = "built") =>
          /\ \A id \in Ids(b) \ InDomainIds(b) : machine.nf[id] = id
          /\ op \in {"Apply", "Normalize", "Set", "SetBool", "SetInt"}
                => ret = cur
          /\ (op = "Build") =>
                \A s \in InDomainIds(b) :
                    /\ InDomain(b, machine.nf[s])
                    /\ \A e \in 1..Len(b.events) :
                          LET after == applyEvent(b.events[e], s)
                          IN  /\ InDomain(b, machine.step[e][s])
                              /\ after \in Ids(b) /\ InDomain(b, after)
                              /\ clampState(b, after) = after

\* A caller of a machine that has padding ids and whose Build compared a
\* pair state by state has just called SetInt with a value above the
\* maximum, on a State that is not the initial one.
C38_Witness ==
    /\ pc = "built" /\ op = "SetInt" /\ arg.s # NewState(machine)
    /\ Ids(b) # InDomainIds(b) /\ bld.stepReads # {}
    /\ arg.val > b.vars[arg.k].min + b.vars[arg.k].domain - 1
    /\ getRaw(cur, b.vars[arg.k]) = b.vars[arg.k].domain - 1
    /\ cur # arg.s

\* C39: normal-form computation terminates.  A repair sequence passes only
\* distinct in-domain states, so it applies at most StateCount - 1 repairs
\* before it reaches a valid state, and at most StateCount before a WFC
\* violation is reported; the violation is always the revisit of a state
\* in seen, never the depth test alone; MaxRepairLen <= StateCount - 1 when
\* WFC passes; and Build returns.
C39_NormalFormsTerminate ==
    /\ [][/\ (bld'.phase = "repair") =>
                /\ bld'.depth <= bld'.report.StateCount - 1
                /\ Cardinality(bld'.seen) = bld'.depth + 1
                /\ bld'.seen \subseteq InDomainIds(b)
          /\ (bld.phase = "repair" /\ bld'.err = "wfc") =>
                /\ bld'.rs \in bld.seen
                /\ bld'.depth <= bld'.report.StateCount
          /\ (bld'.phase \in {"nf", "repair", "step", "cc"}
                    \/ (bld'.phase \in {"return", "returned"}
                            /\ bld'.err \in {"", "cc"})) =>
                bld'.maxRepair <= bld'.report.StateCount - 1
          /\ (~bld'.report.isNil /\ bld'.report.WFC) =>
                bld'.report.MaxRepairLen <= bld'.report.StateCount - 1]_vars
    /\ <>(bld.phase = "returned")

\* Build reports a WFC violation for a sequence that entered a cycle its
\* start state is not part of, after a start state that took two repairs.
C39_Witness ==
    /\ bld.phase = "return" /\ bld.err = "wfc"
    /\ bld.rs \in bld.seen /\ bld.rs # bld.i /\ bld.depth >= 2

\* Build passes WFC with a chain of StateCount - 1 repairs.
C39_WitnessLongest ==
    /\ bld.phase = "returned" /\ report.WFC
    /\ report.MaxRepairLen = report.StateCount - 1 /\ report.StateCount >= 3

\* C40: every outcome of Build is consistent.  A machine is returned iff
\* the error is nil iff the report has WFC and CC true; a returned report
\* has PairsTotal = PairsDisjoint + PairsBrute and a CCFailure iff WFC
\* passed and CC failed; when WFC fails, CC is false and no pair is counted.
C40_BuildOutcomeConsistent ==
    (op = "Build") =>
        /\ (~machine.isNil) <=> (err = "")
        /\ (err = "") <=> (~report.isNil /\ report.WFC /\ report.CC)
        /\ (pc = "built") <=> (err = "")
        /\ (~report.isNil) =>
              /\ report.PairsTotal = report.PairsDisjoint + report.PairsBrute
              /\ (~report.CCFailure.isNil) <=> (report.WFC /\ ~report.CC)
              /\ (~report.CCFailure.isNil) <=> (err = "cc")
              /\ (~report.WFC) =>
                    /\ ~report.CC /\ err = "wfc"
                    /\ report.PairsTotal = 0 /\ report.PairsDisjoint = 0
                    /\ report.PairsBrute = 0
              /\ report.PairsTotal <= Len(pairsToCheck(b))
              /\ (report.CC) => report.PairsTotal = Len(pairsToCheck(b))

\* Build has failed the CC check on a later pair than the first, before
\* the last.
C40_Witness ==
    /\ op = "Build" /\ err = "cc" /\ machine.isNil
    /\ report.WFC /\ ~report.CC /\ ~report.CCFailure.isNil
    /\ report.PairsTotal >= 2 /\ report.PairsBrute >= 1
    /\ report.PairsTotal < Len(pairsToCheck(b))

\* Build has failed the WFC check.
C40_WitnessWFC ==
    /\ op = "Build" /\ err = "wfc" /\ machine.isNil /\ ~report.isNil
    /\ ~report.WFC /\ ~report.CC /\ Len(pairsToCheck(b)) > 0

\* Build has returned a machine after it compared a pair state by state.
C40_WitnessBuilt ==
    /\ op = "Build" /\ err = "" /\ ~machine.isNil
    /\ report.WFC /\ report.CC /\ report.PairsBrute >= 1

====
